---- MODULE Spec2Model ----
(***************************************************************************)
(* TriBFT (aleIssac/Tribft-OMNeT): one node's HotStuff consensus engine    *)
(* (src/src/consensus/HotStuffEngine.cc) wired to its application layer    *)
(* (src/src/application/TriBFTApp.cc) through the callbacks installed by   *)
(* TriBFTApp::initializeConsensus.                                         *)
(*                                                                         *)
(* The node under study is NodeID.  Everything it receives (proposals,     *)
(* votes, phase advances, position updates) is chosen by the environment   *)
(* from small sets, so the environment plays every other committee member, *)
(* honest or Byzantine, and every delivery order.                          *)
(*                                                                         *)
(* Reading of the sources:                                                 *)
(*  - TriBFTApp.cc lost the line break after some non-ASCII comments (the  *)
(*    statement that follows shows on the comment's line, e.g. lines 974,  *)
(*    1013, 1047).  Those statements are part of the program (the file     *)
(*    does not balance its braces otherwise) and are modelled as executed. *)
(*  - hasQuorum, advancePhase and commitBlock are declared and called but  *)
(*    their bodies are withheld ("Core implementation hidden"); they are   *)
(*    modelled from spec.md section 4.D.                                   *)
(*  - simTime() is left out of proposal ids, block hashes and votes; the   *)
(*    signature string of a vote is left out; txPool_, seenTxIds_ and the  *)
(*    multi-hop forwarding of TriBFTApp::handleTransactionMessage do not   *)
(*    gate the dispatch in onWSM (the handler returns void) and are        *)
(*    projected away.                                                      *)
(*  - isLeaderNode_, needsReelection() and the answers of the shard        *)
(*    manager (role, group size, shard of a position) are inputs of the    *)
(*    handlers that read them.                                             *)
(*  - The other member's votes approve; a vote is counted whatever its     *)
(*    approve flag, so a rejecting vote would be filed the same way.       *)
(*  - The reputation manager (src/src/reputation/VRMManager.cc) is studied *)
(*    on its own in SpecVRM; the engine specifications run with            *)
(*    vrmEnabled_ false, and the reputation update of the commit callback  *)
(*    is the SpecVRM action OnBlockCommitted.  getEventWeight and          *)
(*    updateScore are withheld and modelled from spec.md section 4.A.      *)
(*    Scores are fixed-point numbers, MAX_REPUTATION standing for 1.0;     *)
(*    divisions round down.  The per-event counters and lastUpdate of a    *)
(*    reputation record are left out.                                      *)
(*  - The committee selector (src/src/consensus/VRFSelector.cc) is studied *)
(*    in SpecVRF, the application's epoch bookkeeping in SpecEpoch, and    *)
(*    the shard manager (src/src/shard/RegionalShardManager.cc) in         *)
(*    SpecShard.  VRFSelector::electConsensusGroup, calculateVRF and       *)
(*    RegionalShardManager::electLeaderByReputation are withheld and are   *)
(*    modelled from spec.md sections 4.B and 4.C.  The other               *)
(*    specifications leave the epoch bookkeeping aside (needsReelection()  *)
(*    is an input there).                                                  *)
(*  - The header store (src/src/blockchain/LightweightSync.cc) is studied  *)
(*    in SpecSync, the leader's transaction pool (txPool_, which the other *)
(*    specifications leave out) in SpecPool, and the low-reputation        *)
(*    verifier (src/src/reputation/LowRepVerifier.cc) in SpecVerifier.     *)
(***************************************************************************)
EXTENDS Integers, Sequences, FiniteSets, TLC

----------------------------------------------------------------------------
(* Bounds of the model *)

\* Heights explored by the engine-level specification (Spec) and by the
\* application-level one (SpecApp)
MaxHeight == 1
MaxSyncHeight == 3
\* Votes buffered in the vote store between two handler calls
MaxVotes == 3
\* Committee sizes the shard manager answers
MaxShardSize == 2
\* Rounds abandoned by timeout
MaxFailed == 1
\* Events recorded in the reputation records, all nodes together
MaxEvents == 2
\* Reputation decay ticks
MaxDecayTicks == 1
\* Events recorded for one node in SpecHistory
MaxHistory == 101

\* Nodes that may stand as candidates of a committee election
MaxVrfNodes == 4
\* Blocks committed in SpecEpoch (one more than an epoch holds)
MaxEpochBlocks == 11
\* Nodes known to the shard manager, and shard ids it hands out
MaxShardNodes == 3
MaxShards == 3
\* Highest height of the headers and blocks offered to the synchroniser
MaxHeaderHeight == 1
\* Transactions that enter the leader's pool
MaxArrivals == 1001
\* Verifications submitted for one event
MaxVerifications == 4
\* Calls of the verification callback counted for one event id
MaxCalls == 2

----------------------------------------------------------------------------
(* Program constants *)

IDLE == 0
PREPARE == 1
PRE_COMMIT == 2
COMMIT == 3

ORDINARY == "ORDINARY"
CONSENSUS_PRIMARY == "CONSENSUS_PRIMARY"
CONSENSUS_REDUNDANT == "CONSENSUS_REDUNDANT"
RSU_PERMANENT == "RSU_PERMANENT"
NodeRole == {ORDINARY, CONSENSUS_PRIMARY, CONSENSUS_REDUNDANT, RSU_PERMANENT}

NodeID == "self"
NoShard == -1
EmptyString == ""
EmptyID == << >>

----------------------------------------------------------------------------
(* Data structures of TriBFTDefs.h *)

Transaction(id, sender) == [txID |-> id, sender |-> sender]

ConsensusProposal(id, height, view, leader, shard, txs, hash) ==
    [proposalID |-> id, blockHeight |-> height, viewNumber |-> view,
     leaderID |-> leader, shardID |-> shard, transactions |-> txs,
     blockHash |-> hash]

DefaultProposal == ConsensusProposal(EmptyID, 0, 0, EmptyString, NoShard, << >>, EmptyID)

VoteInfo(id, voter, phase, approve) ==
    [proposalID |-> id, voterID |-> voter, phase |-> phase, approve |-> approve]

QuorumCertificate(id, phase, height, view, votes, total) ==
    [proposalID |-> id, phase |-> phase, blockHeight |-> height,
     viewNumber |-> view, votes |-> votes, totalVotes |-> total]

DefaultQC == QuorumCertificate(EmptyID, IDLE, 0, 0, << >>, 0)

Block(height, hash, prev, shard, txs, qc, proposer) ==
    [height |-> height, blockHash |-> hash, previousHash |-> prev,
     shardID |-> shard, transactions |-> txs, qc |-> qc, proposer |-> proposer]

ConsensusMetrics(proposals, failed) ==
    [totalProposals |-> proposals, failedConsensus |-> failed]

EmptyMap == [k \in {} |-> << >>]

Msg(type, id, phase, approve, voter) ==
    [type |-> type, proposalID |-> id, phase |-> phase, approve |-> approve, voterID |-> voter]

----------------------------------------------------------------------------
VARIABLES
    shardID_, shardSize_, currentPhase_, currentView_, currentHeight_,
    previousBlockHash_, currentProposal_, hasActiveProposal_, voteStore_,
    highestQC_, phaseQCs_, committedBlocks_, metrics_,
    currentShardID_, nodeRole_,
    records_,
    currentGroup_, nodeRoles_, lastEpoch_,
    lastElectionEpoch_, committedBlockCount_,
    shards_, nodeShardMap_, nodeLocationMap_, nodeReputationMap_, nextShardID_,
    headers_, fullBlocks_, latestHeight_,
    txPool_, txArrivals,
    pendingEvents_, verificationCalls,
    last, votedPrepare, decayTicks, electArgs, electedEpochs

engineVars == <<shardID_, shardSize_, currentPhase_, currentView_, currentHeight_,
                previousBlockHash_, currentProposal_, hasActiveProposal_, voteStore_,
                highestQC_, phaseQCs_, committedBlocks_, metrics_>>

\* The variables of one node's engine and application, of the reputation
\* manager, and of one committee selector
nodeVars == <<engineVars, currentShardID_, nodeRole_, last, votedPrepare>>

vrmVars == <<records_, decayTicks>>

vrfVars == <<currentGroup_, nodeRoles_, lastEpoch_, electArgs>>

\* The application's epoch bookkeeping; electedEpochs lists the epochs the
\* node's elections ran in, in the order they ran
epochVars == <<lastElectionEpoch_, committedBlockCount_, electedEpochs>>

\* The shard manager's registry and its three indexes
shardVars == <<shards_, nodeShardMap_, nodeLocationMap_, nodeReputationMap_, nextShardID_>>

\* The header store of a lightweight-sync node
syncVars == <<headers_, fullBlocks_, latestHeight_>>

\* The components studied apart from the consensus, reputation and shard
\* layers
\* The leader's transaction pool; txArrivals counts the transactions that
\* ever entered it
poolVars == <<txPool_, txArrivals>>

\* The low-reputation verifier's events; verificationCalls counts, per event,
\* the calls of the verification callback
lrvVars == <<pendingEvents_, verificationCalls>>

auxVars == <<syncVars, poolVars, lrvVars>>

vars == <<nodeVars, vrmVars, vrfVars, epochVars, shardVars, auxVars>>

St ==
    [shardID_ |-> shardID_, shardSize_ |-> shardSize_, currentPhase_ |-> currentPhase_,
     currentView_ |-> currentView_, currentHeight_ |-> currentHeight_,
     previousBlockHash_ |-> previousBlockHash_, currentProposal_ |-> currentProposal_,
     hasActiveProposal_ |-> hasActiveProposal_, voteStore_ |-> voteStore_,
     highestQC_ |-> highestQC_, phaseQCs_ |-> phaseQCs_,
     committedBlocks_ |-> committedBlocks_, metrics_ |-> metrics_,
     currentShardID_ |-> currentShardID_, nodeRole_ |-> nodeRole_, out |-> << >>]

----------------------------------------------------------------------------
(* HotStuffEngine: construction and initialisation *)

\* HotStuffEngine::HotStuffEngine followed by HotStuffEngine::initialize:
\* the engine object TriBFTApp::initializeConsensus creates for shard `shard`.
NewEngine(s, shard) ==
    [s EXCEPT !.shardID_ = shard, !.shardSize_ = 0, !.currentPhase_ = IDLE,
              !.currentView_ = 0, !.currentHeight_ = 0,
              !.previousBlockHash_ = EmptyID,
              !.currentProposal_ = DefaultProposal, !.hasActiveProposal_ = FALSE,
              !.voteStore_ = EmptyMap, !.highestQC_ = DefaultQC,
              !.phaseQCs_ = EmptyMap, !.committedBlocks_ = << >>,
              !.metrics_ = ConsensusMetrics(0, 0)]

setShardSize(s, size) == [s EXCEPT !.shardSize_ = size]

----------------------------------------------------------------------------
(* HotStuffEngine: helpers *)

VotesOf(store, id, phase) ==
    IF <<id, phase>> \in DOMAIN store THEN store[<<id, phase>>] ELSE << >>

\* voteStore_[vote.proposalID][vote.phase].push_back(vote)
PushVote(store, vote) ==
    LET k == <<vote.proposalID, vote.phase>>
    IN [x \in (DOMAIN store) \cup {k} |->
            IF x = k THEN Append(VotesOf(store, vote.proposalID, vote.phase), vote)
                     ELSE store[x]]

\* Mutant of canPropose: the engine takes a new proposal of its own at any time
canPropose_Always(s) == TRUE

canPropose(s) == s.currentPhase_ = IDLE /\ ~s.hasActiveProposal_

isInProgress(s) == s.hasActiveProposal_ /\ s.currentPhase_ # IDLE

generateProposalID(s) == <<NodeID, s.currentView_, s.currentHeight_ + 1>>

\* ss << blockHeight << "_" << previousBlockHash_ << "_" << proposalTime
CalculateBlockHash(height, previousHash) == <<height, previousHash>>

getQuorumSize == 2

ValidTransaction(tx) == ~(tx.txID = EmptyString \/ tx.sender = EmptyString)

validateProposal(s, proposal) ==
    /\ ~(proposal.proposalID = EmptyID \/ proposal.blockHash = EmptyID)
    /\ ~(proposal.blockHeight # s.currentHeight_ + 1)
    /\ ~(proposal.viewNumber < s.currentView_)
    /\ ~(proposal.transactions = << >>)
    /\ \A i \in 1..Len(proposal.transactions) : ValidTransaction(proposal.transactions[i])

\* Mutant of MakeVote: the engine's own votes never approve
MakeVote_Reject(proposal, phase, approve) ==
    VoteInfo(proposal.proposalID, NodeID, phase, FALSE)

\* The VoteInfo built by HotStuffEngine::sendVote
MakeVote(proposal, phase, approve) ==
    VoteInfo(proposal.proposalID, NodeID, phase, approve)

\* Mutant of createQC: the certificate is filled from the Prepare votes
createQC_PrepareVotes(s, proposalID, phase) ==
    QuorumCertificate(proposalID, phase, s.currentProposal_.blockHeight,
                      s.currentView_, VotesOf(s.voteStore_, proposalID, PREPARE), 0)

createQC(s, proposalID, phase) ==
    QuorumCertificate(proposalID, phase, s.currentProposal_.blockHeight,
                      s.currentView_, VotesOf(s.voteStore_, proposalID, phase), 0)

\* Mutant of resetConsensusState: the active-proposal flag is left set
resetConsensusState_KeepsActive(s) ==
    [s EXCEPT !.currentPhase_ = IDLE, !.voteStore_ = EmptyMap, !.phaseQCs_ = EmptyMap]

resetConsensusState(s) ==
    [s EXCEPT !.currentPhase_ = IDLE, !.hasActiveProposal_ = FALSE,
              !.voteStore_ = EmptyMap, !.phaseQCs_ = EmptyMap]

syncToHeight(s, newHeight) ==
    IF newHeight > s.currentHeight_ THEN [s EXCEPT !.currentHeight_ = newHeight] ELSE s

\* The successor handlePhaseAdvance expects for the current phase (IDLE: none)
ExpectedNext(phase) ==
    IF phase = PREPARE THEN PRE_COMMIT
    ELSE IF phase = PRE_COMMIT THEN COMMIT
    ELSE IDLE

Emit(s, m) == [s EXCEPT !.out = Append(@, m)]

\* spec.md 4.D: "accumulate; when quorum reached for current phase, advance";
\* a quorum is "at least q matching votes for a (proposal, phase)".
hasQuorum(s, proposalID, phase) ==
    Len(VotesOf(s.voteStore_, proposalID, phase)) >= getQuorumSize

\* TriBFTApp::sendDecision
App_sendDecision(s, block) ==
    Emit(s, Msg("decide", block.blockHash, COMMIT, TRUE, NodeID))

\* TriBFTApp::onBlockCommitted (commit callback)
App_onBlockCommitted(s, block) == App_sendDecision(s, block)

\* spec.md 4.D "Commit": build the final Block (current proposal + Commit QC),
\* increment current_height, update previous_block_hash, invoke the commit
\* callback, reset to IDLE.
commitBlock(s) ==
    LET p == s.currentProposal_
        qc == createQC(s, p.proposalID, COMMIT)
        block == Block(p.blockHeight, p.blockHash, s.previousBlockHash_, p.shardID,
                       p.transactions, qc, p.leaderID)
        s1 == [s EXCEPT !.highestQC_ = qc,
                        !.currentHeight_ = @ + 1,
                        !.previousBlockHash_ = p.blockHash,
                        !.committedBlocks_ = Append(@, block)]
    IN resetConsensusState(App_onBlockCommitted(s1, block))

----------------------------------------------------------------------------
(* HotStuffEngine handlers and the TriBFTApp callbacks they re-enter *)

RECURSIVE handleVote(_, _)
RECURSIVE advancePhase(_)
RECURSIVE sendVote(_, _, _, _)
RECURSIVE App_sendVote(_, _)
RECURSIVE handlePhaseAdvance(_, _, _)
RECURSIVE App_sendPhaseAdvance(_, _, _, _)

\* Mutant of handleVote: the quorum is checked for the vote's phase, whether
\* or not it is the current one
handleVote_AnyPhase(s, vote) ==
    IF ~s.hasActiveProposal_ \/ vote.proposalID # s.currentProposal_.proposalID
    THEN s
    ELSE LET s1 == [s EXCEPT !.voteStore_ = PushVote(@, vote)]
         IN IF hasQuorum(s1, vote.proposalID, vote.phase)
            THEN advancePhase(s1)
            ELSE s1

\* HotStuffEngine::handleVote
handleVote(s, vote) ==
    IF ~s.hasActiveProposal_ \/ vote.proposalID # s.currentProposal_.proposalID
    THEN s
    ELSE LET s1 == [s EXCEPT !.voteStore_ = PushVote(@, vote)]
         IN IF vote.phase = s1.currentPhase_
            THEN IF hasQuorum(s1, vote.proposalID, s1.currentPhase_)
                 THEN advancePhase(s1)
                 ELSE s1
            ELSE s1

\* TriBFTApp::sendVote (also the engine's vote callback, onVoteGenerated):
\* the vote is handled locally first, then broadcast.
App_sendVote(s, vote) ==
    Emit(handleVote(s, vote),
         Msg("vote", vote.proposalID, vote.phase, vote.approve, vote.voterID))

\* HotStuffEngine::sendVote
sendVote(s, proposal, phase, approve) ==
    App_sendVote(s, MakeVote(proposal, phase, approve))

\* HotStuffEngine::handlePhaseAdvance
handlePhaseAdvance(s, proposalID, toPhase) ==
    IF proposalID # s.currentProposal_.proposalID THEN s
    ELSE IF s.currentPhase_ \notin {PREPARE, PRE_COMMIT} THEN s
    ELSE IF toPhase # ExpectedNext(s.currentPhase_) THEN s
    ELSE sendVote([s EXCEPT !.currentPhase_ = toPhase], s.currentProposal_, toPhase, TRUE)

\* TriBFTApp::sendPhaseAdvance (phase-advance callback): the notification is
\* handled locally (handleDisguisedPhaseAdvance), then broadcast.
App_sendPhaseAdvance(s, proposalID, fromPhase, toPhase) ==
    Emit(handlePhaseAdvance(s, proposalID, toPhase),
         Msg("phase", proposalID, toPhase, TRUE, NodeID))

\* spec.md 4.D "Phase-advance protocol": 1. assemble a QC, 2. store it as
\* highest_qc, 3. broadcast a phase-advance notification, 4. transition to the
\* next phase and emit the own vote for that phase; at the Commit quorum, commit.
advancePhase(s) ==
    IF s.currentPhase_ = COMMIT THEN commitBlock(s)
    ELSE IF s.currentPhase_ \notin {PREPARE, PRE_COMMIT} THEN s
    ELSE LET from == s.currentPhase_
             to == ExpectedNext(from)
             id == s.currentProposal_.proposalID
             qc == createQC(s, id, from)
             s1 == [s EXCEPT !.highestQC_ = qc,
                             !.phaseQCs_ = [x \in (DOMAIN @) \cup {from} |-> IF x = from THEN qc ELSE @[x]]]
             s2 == App_sendPhaseAdvance(s1, id, from, to)
             s3 == [s2 EXCEPT !.currentPhase_ = to]
         IN sendVote(s3, s3.currentProposal_, to, TRUE)


\* HotStuffEngine::proposeBlock; the proposal callback is TriBFTApp::sendProposal,
\* which handles the disguised proposal locally (handleDisguisedProposal: vote
\* YES through TriBFTApp::sendVote, and once more in the engine when this node
\* is the proposal's leader) and then broadcasts it.
App_handleDisguisedProposal(s, proposalID, leaderID) ==
    LET vote == VoteInfo(proposalID, NodeID, PREPARE, TRUE)
        s1 == App_sendVote(s, vote)
    IN IF NodeID = leaderID THEN handleVote(s1, vote) ELSE s1

App_sendProposal(s, proposal) ==
    Emit(App_handleDisguisedProposal(s, proposal.proposalID, proposal.leaderID),
         Msg("proposal", proposal.proposalID, PREPARE, TRUE, NodeID))

\* The value HotStuffEngine::proposeBlock returns
proposeBlockResult(s, transactions) ==
    IF ~canPropose(s) THEN FALSE
    ELSE IF transactions = << >> THEN FALSE
    ELSE TRUE

proposeBlock(s, transactions) ==
    IF ~canPropose(s) THEN s
    ELSE IF transactions = << >> THEN s
    ELSE LET height == s.currentHeight_ + 1
             proposal == ConsensusProposal(generateProposalID(s), height, s.currentView_,
                                           NodeID, s.shardID_, transactions,
                                           CalculateBlockHash(height, s.previousBlockHash_))
             s1 == [s EXCEPT !.currentProposal_ = proposal,
                             !.hasActiveProposal_ = TRUE,
                             !.currentPhase_ = PREPARE,
                             !.metrics_.totalProposals = @ + 1]
             s2 == App_sendProposal(s1, proposal)
         IN sendVote(s2, proposal, PREPARE, TRUE)

\* HotStuffEngine::handleProposal
handleProposal(s, proposal) ==
    IF ~validateProposal(s, proposal)
    THEN sendVote(s, proposal, PREPARE, FALSE)
    ELSE sendVote([s EXCEPT !.currentProposal_ = proposal,
                            !.hasActiveProposal_ = TRUE,
                            !.currentPhase_ = PREPARE],
                  proposal, PREPARE, TRUE)

\* Mutant of handleTimeout: the hasActiveProposal_ guard is dropped
handleTimeout_Unguarded(s) ==
    resetConsensusState([s EXCEPT !.metrics_.failedConsensus = @ + 1])

\* HotStuffEngine::handleTimeout
handleTimeout(s) ==
    IF s.hasActiveProposal_
    THEN resetConsensusState([s EXCEPT !.metrics_.failedConsensus = @ + 1])
    ELSE s

\* TriBFTApp::shouldParticipateInConsensus
shouldParticipateInConsensus(s) ==
    s.nodeRole_ \in {CONSENSUS_PRIMARY, CONSENSUS_REDUNDANT, RSU_PERMANENT}

\* TriBFTApp::handleProposalMessage; managerRole is what
\* shardManager_->getNodeRole answers for this node.
App_handleProposalMessage(s, msg, managerRole) ==
    LET s1 == IF msg.blockHeight > s.currentHeight_ + 1
              THEN syncToHeight(s, msg.blockHeight - 1) ELSE s
        s2 == IF s1.nodeRole_ = ORDINARY /\ managerRole # ORDINARY
              THEN [s1 EXCEPT !.nodeRole_ = managerRole] ELSE s1
    IN IF ~shouldParticipateInConsensus(s2) THEN s2
       ELSE handleProposal(s2, [msg EXCEPT !.transactions = << >>])

\* TriBFTApp::initializeConsensus: a fresh engine for currentShardID_, its shard
\* size taken from the shard manager (memberCount).
App_initializeConsensus(s, memberCount) ==
    setShardSize(NewEngine(s, s.currentShardID_), memberCount)

\* TriBFTApp::handlePositionUpdate; newShardID is what
\* shardManager_->updateNodeLocation answers.
App_handlePositionUpdate(s, newShardID, memberCount) ==
    IF newShardID # s.currentShardID_ /\ newShardID # NoShard
    THEN App_initializeConsensus([s EXCEPT !.currentShardID_ = newShardID], memberCount)
    ELSE s

\* TriBFTApp::electConsensusGroup; role and groupSize are what the shard
\* manager answers (getNodeRole, group.getTotalSize()).
App_electConsensusGroup(s, role, groupSize) ==
    setShardSize([s EXCEPT !.nodeRole_ = role], groupSize)


\* TriBFTApp::handleConsensusTimer; reelect is what needsReelection answers,
\* leader is isLeaderNode_, batch the transactions taken from the pool (none
\* when the pool holds fewer than batchSize_).
App_handleConsensusTimer(s, reelect, role, groupSize, leader, batch) ==
    LET s1 == IF reelect THEN App_electConsensusGroup(s, role, groupSize) ELSE s
    IN IF ~shouldParticipateInConsensus(s1) THEN s1
       ELSE IF ~leader THEN s1
       ELSE IF batch # << >> THEN proposeBlock(s1, batch)
       ELSE s1

----------------------------------------------------------------------------
(* Inputs the environment chooses from *)

ShardIDs == {0, 1}
ExtVoters == {"n2"}
ExtLeader == "n2"
GoodTx == Transaction("t1", "n2")
GoodHash == CalculateBlockHash(0, EmptyID)
IdA == <<ExtLeader, 0, 1>>
ExtIDs == {EmptyID, IdA}

\* The well-formed proposal the other leader sends for height h
ProposalA(h) == ConsensusProposal(IdA, h, 0, ExtLeader, 0, <<GoodTx>>, GoodHash)

\* ProposalA, and ProposalA with one field changed: another shard, no id, no
\* hash, no transactions, a transaction without id, a transaction without sender.
Proposals ==
    { ProposalA(h) : h \in 1..MaxHeight }
    \cup { [ProposalA(h) EXCEPT !.shardID = 1] : h \in 1..MaxHeight }
    \cup { [ProposalA(h) EXCEPT !.proposalID = EmptyID] : h \in 1..MaxHeight }
    \cup { [ProposalA(h) EXCEPT !.blockHash = EmptyID] : h \in 1..MaxHeight }
    \cup { [ProposalA(h) EXCEPT !.transactions = << >>] : h \in 1..MaxHeight }
    \cup { [ProposalA(h) EXCEPT !.transactions = <<GoodTx, Transaction(EmptyString, "n2")>>] : h \in 1..MaxHeight }
    \cup { [ProposalA(h) EXCEPT !.transactions = <<Transaction("t2", EmptyString)>>] : h \in 1..MaxHeight }

\* A ProposalMessage carries no transaction list; its height may be ahead
ProposalMessages == { ProposalA(h) : h \in 1..MaxSyncHeight }

TxLists == { << >>, <<GoodTx>> }

\* The votes of the other member for the other leader's proposal
Votes ==
    { VoteInfo(IdA, voter, ph, TRUE) : voter \in ExtVoters, ph \in PREPARE..COMMIT }

----------------------------------------------------------------------------
(* The state machine *)

RECURSIVE SumLen(_, _)
SumLen(store, keys) ==
    IF keys = {} THEN 0
    ELSE LET k == CHOOSE x \in keys : TRUE
         IN Len(store[k]) + SumLen(store, keys \ {k})

\* Number of votes buffered in the vote store
StoredVotes(store) == SumLen(store, DOMAIN store)

\* The model's caps: no more than MaxVotes votes buffered, no height above
\* maxHeight, no more than MaxFailed abandoned rounds per engine
Bounded(s, maxHeight) ==
    /\ s.currentHeight_ <= maxHeight
    /\ s.metrics_.failedConsensus <= MaxFailed
    /\ StoredVotes(s.voteStore_) <= MaxVotes

\* Proposal ids this node sent an approving Prepare vote for during the handler
PrepareVotedIn(msgs) ==
    { msgs[i].proposalID : i \in { j \in 1..Len(msgs) :
          /\ msgs[j].type = "vote" /\ msgs[j].phase = PREPARE
          /\ msgs[j].voterID = NodeID /\ msgs[j].approve } }

\* The handler named op ran and left the node in state s
ApplyNode(s, op, maxHeight) ==
    /\ Bounded(s, maxHeight)
    /\ shardID_' = s.shardID_
    /\ shardSize_' = s.shardSize_
    /\ currentPhase_' = s.currentPhase_
    /\ currentView_' = s.currentView_
    /\ currentHeight_' = s.currentHeight_
    /\ previousBlockHash_' = s.previousBlockHash_
    /\ currentProposal_' = s.currentProposal_
    /\ hasActiveProposal_' = s.hasActiveProposal_
    /\ voteStore_' = s.voteStore_
    /\ highestQC_' = s.highestQC_
    /\ phaseQCs_' = s.phaseQCs_
    /\ committedBlocks_' = s.committedBlocks_
    /\ metrics_' = s.metrics_
    /\ currentShardID_' = s.currentShardID_
    /\ nodeRole_' = s.nodeRole_
    /\ last' = op
    /\ votedPrepare' = votedPrepare \cup PrepareVotedIn(s.out)

\* A handler of a specification that leaves the epoch bookkeeping aside: what
\* needsReelection answers is an input of its handlers
Apply(s, op, maxHeight) ==
    /\ ApplyNode(s, op, maxHeight)
    /\ UNCHANGED <<vrmVars, vrfVars, epochVars, shardVars, auxVars>>

----------------------------------------------------------------------------
(* The committee selector (VRFSelector). Node ids are numbers here, so that *)
(* "node id ascending" has a meaning. electConsensusGroup and calculateVRF  *)
(* are withheld in the source ("Core implementation hidden") and follow     *)
(* section 4.B of the specification; selectTopN, setCurrentGroup and the    *)
(* accessors follow VRFSelector.cc.                                         *)

VrfNodes == 1..MaxVrfNodes

VrfScores == 0..1

\* A seed is represented by the table of scores H(n || seed) it induces
Seeds == [VrfNodes -> VrfScores]

\* std::sort leaves the relative order of equal scores to the library
TieOrders == {"ascending", "descending"}

GroupSizes == {2, 3}

RedundantCounts == {0, 1, 2}

Min(a, b) == IF a < b THEN a ELSE b

Max(a, b) == IF a > b THEN a ELSE b

SeqToSet(seq) == {seq[i] : i \in 1..Len(seq)}

ConsensusGroup(primaryNodes, redundantNodes, rsuCount, vehicleCount, epoch) ==
    [primaryNodes |-> primaryNodes, redundantNodes |-> redundantNodes,
     rsuCount |-> rsuCount, vehicleCount |-> vehicleCount, epoch |-> epoch]

satisfiesRSUConstraint(group) ==
    LET total == Len(group.primaryNodes)
    IN group.rsuCount >= (total \div 3)

getTotalSize(group) == Len(group.primaryNodes) + Len(group.redundantNodes)

calculateVRF(nodeID, seed) == seed[nodeID]

\* The comparison the sort makes, with the library's choice among equal scores
vrfBefore(a, b, seed, ties) ==
    \/ calculateVRF(a, seed) > calculateVRF(b, seed)
    \/ /\ calculateVRF(a, seed) = calculateVRF(b, seed)
       /\ IF ties = "ascending" THEN a < b ELSE a > b

RECURSIVE sortByVRF(_, _, _)
sortByVRF(nodes, seed, ties) ==
    IF nodes = {} THEN << >>
    ELSE LET first == CHOOSE x \in nodes :
                          \A y \in nodes \ {x} : vrfBefore(x, y, seed, ties)
         IN <<first>> \o sortByVRF(nodes \ {first}, seed, ties)

selectTopN_IgnoresCount(candidates, count, seed, ties) ==
    IF candidates = {} THEN << >>
    ELSE sortByVRF(candidates, seed, ties)

selectTopN(candidates, count, seed, ties) ==
    IF candidates = {} THEN << >>
    ELSE LET vrfValues == sortByVRF(candidates, seed, ties)
             selectCount == Min(count, Len(vrfValues))
         IN SubSeq(vrfValues, 1, selectCount)

\* The lowest-scored count nodes of a set
selectBottomN(nodes, count, seed, ties) ==
    LET sorted == sortByVRF(nodes, seed, ties)
    IN {sorted[i] : i \in (Len(sorted) - count + 1)..Len(sorted)}

electConsensusGroup_NoPromotion(candidates, rsuNodes, groupSize, redundantCount, seed, ties) ==
    LET underfill == Cardinality(candidates) < groupSize
        G == IF underfill THEN Cardinality(candidates) ELSE groupSize
        K == IF underfill THEN 0 ELSE redundantCount
        primary == SeqToSet(selectTopN(candidates, G, seed, ties))
        rsuCount == Cardinality(primary \cap rsuNodes)
    IN ConsensusGroup(sortByVRF(primary, seed, ties),
                      selectTopN(candidates \ primary, K, seed, ties),
                      rsuCount, Cardinality(primary) - rsuCount, 0)

electConsensusGroup(candidates, rsuNodes, groupSize, redundantCount, seed, ties) ==
    LET underfill == Cardinality(candidates) < groupSize
        G == IF underfill THEN Cardinality(candidates) ELSE groupSize
        K == IF underfill THEN 0 ELSE redundantCount
        provisional == SeqToSet(selectTopN(candidates, G, seed, ties))
        remainingRSUs == (candidates \cap rsuNodes) \ provisional
        missing == (G \div 3) - Cardinality(provisional \cap rsuNodes)
        swaps == Max(0, Min(missing, Cardinality(remainingRSUs)))
        promoted == SeqToSet(selectTopN(remainingRSUs, swaps, seed, ties))
        demoted == selectBottomN(provisional \ rsuNodes, swaps, seed, ties)
        primary == (provisional \ demoted) \cup promoted
        rsuCount == Cardinality(primary \cap rsuNodes)
    IN ConsensusGroup(sortByVRF(primary, seed, ties),
                      selectTopN(candidates \ primary, K, seed, ties),
                      rsuCount, Cardinality(primary) - rsuCount, 0)

\* VRFSelector::setCurrentGroup rebuilds the role map from the group
rolesOf(group) ==
    [n \in SeqToSet(group.primaryNodes) \cup SeqToSet(group.redundantNodes) |->
        IF n \in SeqToSet(group.redundantNodes) THEN CONSENSUS_REDUNDANT
        ELSE CONSENSUS_PRIMARY]

isInConsensusGroup(group, nodeID) == nodeID \in SeqToSet(group.primaryNodes)

isRedundantNode(group, nodeID) == nodeID \in SeqToSet(group.redundantNodes)

getNodeRole(roles, nodeID) ==
    IF nodeID \in DOMAIN roles THEN roles[nodeID] ELSE ORDINARY

\* The arguments of one call of electConsensusGroup
ElectArgs ==
    [candidates : SUBSET VrfNodes, rsuNodes : SUBSET VrfNodes,
     groupSize : GroupSizes, redundantCount : RedundantCounts,
     seed : Seeds, ties : TieOrders]

\* No call was made yet
NoArgs ==
    [candidates |-> {}, rsuNodes |-> {}, groupSize |-> 0, redundantCount |-> 0,
     seed |-> [n \in VrfNodes |-> 0], ties |-> "ascending"]

InitNode ==
    /\ shardID_ = 0
    /\ shardSize_ = 1
    /\ currentPhase_ = IDLE
    /\ currentView_ = 0
    /\ currentHeight_ = 0
    /\ previousBlockHash_ = EmptyID
    /\ currentProposal_ = DefaultProposal
    /\ hasActiveProposal_ = FALSE
    /\ voteStore_ = EmptyMap
    /\ highestQC_ = DefaultQC
    /\ phaseQCs_ = EmptyMap
    /\ committedBlocks_ = << >>
    /\ metrics_ = ConsensusMetrics(0, 0)
    /\ currentShardID_ = 0
    /\ nodeRole_ = ORDINARY
    /\ last = "init"
    /\ votedPrepare = {}

InitVRM ==
    /\ records_ = EmptyMap
    /\ decayTicks = 0

\* VRFSelector::VRFSelector: no group, no roles, no epoch elected yet
InitSelector ==
    /\ currentGroup_ = ConsensusGroup(<< >>, << >>, 0, 0, 0)
    /\ nodeRoles_ = EmptyMap
    /\ lastEpoch_ = -1

\* TriBFTApp::initialize (stage 0): no election yet, no block committed
InitEpoch ==
    /\ lastElectionEpoch_ = -1
    /\ committedBlockCount_ = 0
    /\ electedEpochs = << >>

\* RegionalShardManager::RegionalShardManager: no shard, no node
InitShard ==
    /\ shards_ = EmptyMap
    /\ nodeShardMap_ = EmptyMap
    /\ nodeLocationMap_ = EmptyMap
    /\ nodeReputationMap_ = EmptyMap
    /\ nextShardID_ = 0

\* LightweightSync::LightweightSync / initialize: nothing stored
InitSync ==
    /\ headers_ = EmptyMap
    /\ fullBlocks_ = EmptyMap
    /\ latestHeight_ = 0

\* TriBFTApp: txPool_ starts empty
InitPool ==
    /\ txPool_ = << >>
    /\ txArrivals = 0

\* LowRepVerifier::LowRepVerifier: no event
InitVerifier ==
    /\ pendingEvents_ = EmptyMap
    /\ verificationCalls = EmptyMap

Init ==
    /\ InitNode
    /\ InitVRM
    /\ InitSelector
    /\ InitEpoch
    /\ InitShard
    /\ InitSync
    /\ InitPool
    /\ InitVerifier
    /\ electArgs = NoArgs

----------------------------------------------------------------------------
(* Spec: the engine driven through its public operations, its callbacks    *)
(* wired to the application as TriBFTApp::initializeConsensus wires them.  *)

ProposeBlock ==
    \E txs \in TxLists :
        LET r == proposeBlock(St, txs) IN Apply(r, "proposeBlock", MaxHeight)

HandleProposal ==
    \E p \in Proposals :
        LET r == handleProposal(St, p) IN Apply(r, "handleProposal", MaxHeight)

HandleVote ==
    \E v \in Votes :
        LET r == handleVote(St, v) IN Apply(r, "handleVote", MaxHeight)

HandlePhaseAdvance ==
    \E id \in ExtIDs, to \in IDLE..COMMIT :
        LET r == handlePhaseAdvance(St, id, to) IN Apply(r, "handlePhaseAdvance", MaxHeight)

HandleTimeout ==
    LET r == handleTimeout(St) IN Apply(r, "handleTimeout", MaxHeight)

SyncToHeight ==
    \E h \in 0..MaxHeight :
        LET r == syncToHeight(St, h) IN Apply(r, "syncToHeight", MaxHeight)

HandleDisguisedProposal ==
    LET r == App_handleDisguisedProposal(St, IdA, ExtLeader)
    IN Apply(r, "handleDisguisedProposal", MaxHeight)

Next ==
    \/ ProposeBlock
    \/ HandleProposal
    \/ HandleVote
    \/ HandlePhaseAdvance
    \/ HandleTimeout
    \/ SyncToHeight
    \/ HandleDisguisedProposal

Spec == Init /\ [][Next]_vars

----------------------------------------------------------------------------
(* SpecApp: the node inside the application; every event is one handler of *)
(* TriBFTApp.  What the shard manager, the transaction pool and the leader *)
(* flag answer is chosen by the environment.                               *)

OnConsensusTimer ==
    \E reelect \in BOOLEAN, role \in NodeRole, n \in 1..MaxShardSize,
       leader \in BOOLEAN, batch \in TxLists :
        LET r == App_handleConsensusTimer(St, reelect, role, n, leader, batch)
        IN Apply(r, "handleConsensusTimer", MaxSyncHeight)

OnElectionCheck ==
    \E reelect \in BOOLEAN, role \in NodeRole, n \in 1..MaxShardSize :
        LET r == IF reelect THEN App_electConsensusGroup(St, role, n) ELSE St
        IN Apply(r, "handleElectionCheck", MaxSyncHeight)

OnProposalMessage ==
    \E p \in ProposalMessages, role \in NodeRole :
        LET r == App_handleProposalMessage(St, p, role)
        IN Apply(r, "handleProposalMessage", MaxSyncHeight)

OnDisguisedProposal ==
    LET r == App_handleDisguisedProposal(St, IdA, ExtLeader)
    IN Apply(r, "handleDisguisedProposal", MaxSyncHeight)

OnDisguisedVote ==
    \E v \in Votes :
        LET r == handleVote(St, v) IN Apply(r, "handleDisguisedVote", MaxSyncHeight)

OnDisguisedPhaseAdvance ==
    \E to \in PREPARE..COMMIT :
        LET r == handlePhaseAdvance(St, IdA, to)
        IN Apply(r, "handleDisguisedPhaseAdvance", MaxSyncHeight)

OnPositionUpdate ==
    \E sh \in ShardIDs \cup {NoShard}, n \in 1..MaxShardSize :
        LET r == App_handlePositionUpdate(St, sh, n)
        IN Apply(r, "handlePositionUpdate", MaxSyncHeight)

NextApp ==
    \/ OnConsensusTimer
    \/ OnElectionCheck
    \/ OnProposalMessage
    \/ OnDisguisedProposal
    \/ OnDisguisedVote
    \/ OnDisguisedPhaseAdvance
    \/ OnPositionUpdate

SpecApp == Init /\ [][NextApp]_vars

----------------------------------------------------------------------------
(* Properties *)

\* The quorum certificates the node holds: the highest one and those of the
\* blocks it committed
ObservedQCs ==
    {highestQC_} \cup { committedBlocks_[i].qc : i \in 1..Len(committedBlocks_) }

C3_CommittedHeightsGapFree ==
    \A i \in 1..(Len(committedBlocks_) - 1) :
        committedBlocks_[i + 1].height = committedBlocks_[i].height + 1

\* C4: no node event lowers the current height or the current view
C4_HeightAndViewNeverDecrease ==
    [][currentHeight_' >= currentHeight_ /\ currentView_' >= currentView_]_vars

\* C5: handle_proposal, called while the node is in PREPARE, PRE_COMMIT or
\* COMMIT for its active proposal, neither replaces that proposal nor moves
\* the phase back to PREPARE
C5_ProposalAcceptedOnlyFromIdle ==
    [][(/\ hasActiveProposal_
        /\ currentPhase_ \in {PREPARE, PRE_COMMIT, COMMIT}
        /\ last' = "handleProposal")
       => /\ currentProposal_' = currentProposal_
          /\ (currentPhase_ # PREPARE => currentPhase_' # PREPARE)]_vars

\* C6: propose_block called while a round is in progress, or with no
\* transactions, returns false, emits nothing and leaves the node as it was
C6_ProposeBlockRefused ==
    \A txs \in TxLists :
        (isInProgress(St) \/ txs = << >>)
        => /\ ~proposeBlockResult(St, txs)
           /\ proposeBlock(St, txs) = St

\* C6 witness: propose_block was called with transactions while the node was
\* in a round for the other leader's proposal, and the round is still on
C6_Witness ==
    /\ last = "proposeBlock"
    /\ isInProgress(St)
    /\ currentProposal_.leaderID = ExtLeader
    /\ metrics_.totalProposals = 0

\* The acceptance rule the specification gives for a proposal
SpecAccepts(s, p) ==
    /\ p.proposalID # EmptyID /\ p.blockHash # EmptyID
    /\ p.blockHeight = s.currentHeight_ + 1
    /\ p.viewNumber >= s.currentView_
    /\ p.shardID = s.shardID_
    /\ p.transactions # << >>
    /\ \A i \in 1..Len(p.transactions) :
          p.transactions[i].txID # EmptyString /\ p.transactions[i].sender # EmptyString

\* handle_proposal took p: p is the active proposal and an approving Prepare
\* vote for it was emitted
Accepted(s, p) ==
    LET r == handleProposal(s, p)
    IN /\ r.currentProposal_ = p
       /\ \E i \in 1..Len(r.out) : r.out[i] = Msg("vote", p.proposalID, PREPARE, TRUE, NodeID)

\* C7: handle_proposal accepts a proposal exactly when the specification's
\* rule holds for it; a proposal for another shard is never accepted
C7_AcceptsIffValid ==
    \A p \in Proposals : Accepted(St, p) <=> SpecAccepts(St, p)

\* C8: handle_proposal on a proposal that fails validation emits exactly one
\* rejecting Prepare vote and leaves the node as it was
C8_RejectedProposalLeavesState ==
    \A p \in Proposals :
        ~validateProposal(St, p)
        => LET r == handleProposal(St, p)
           IN /\ r.out = <<Msg("vote", p.proposalID, PREPARE, FALSE, NodeID)>>
              /\ [r EXCEPT !.out = << >>] = St

\* Each voter appears at most once in the list
OneVotePerVoter(votes) ==
    \A i, j \in 1..Len(votes) : i # j => votes[i].voterID # votes[j].voterID

\* C9: no voter has more than one vote in any list of the vote store or in
\* any quorum certificate the node holds
C9_NoDoubleVote ==
    /\ \A k \in DOMAIN voteStore_ : OneVotePerVoter(voteStore_[k])
    /\ \A qc \in ObservedQCs : OneVotePerVoter(qc.votes)

\* ceil(2N/3) + 1 with a floor of 2
SpecQuorumSize(n) ==
    LET q == (2 * n + 2) \div 3 + 1 IN IF q > 2 THEN q ELSE 2

\* C10: the quorum size the engine uses is max(2, ceil(2N/3) + 1) for the
\* committee size N it was given
C10_QuorumSizeFormula ==
    getQuorumSize = SpecQuorumSize(shardSize_)

\* QuorumCertificate::isValid
isValid(qc, quorumSize) == qc.totalVotes >= quorumSize

\* The certificate has total_votes >= quorum size, total_votes equal to the
\* length of its vote list, and votes of its own proposal id and phase
WellFormedQC(qc) ==
    /\ isValid(qc, getQuorumSize)
    /\ qc.totalVotes = Len(qc.votes)
    /\ \A j \in 1..Len(qc.votes) :
          qc.votes[j].proposalID = qc.proposalID /\ qc.votes[j].phase = qc.phase

\* C11: every quorum certificate the engine assembles (the ones it holds, and
\* the one createQC builds from any vote list that has reached the quorum) has
\* total_votes >= quorum size, total_votes = number of its votes, and votes
\* that share its proposal id and phase
C11_QCIsValid ==
    /\ \A qc \in ObservedQCs : qc.phase # IDLE => WellFormedQC(qc)
    /\ \A k \in DOMAIN voteStore_ :
          Len(voteStore_[k]) >= getQuorumSize => WellFormedQC(createQC(St, k[1], k[2]))

\* The votes handle_vote may be called with: the other member's and the node's own
AnyVotes ==
    Votes \cup { VoteInfo(currentProposal_.proposalID, NodeID, ph, TRUE) : ph \in PREPARE..COMMIT }

\* The vote is for the active proposal and the current phase, COMMIT, and is
\* the one that completes the quorum
CompletesCommitQuorum(s, v) ==
    /\ s.hasActiveProposal_ /\ v.proposalID = s.currentProposal_.proposalID
    /\ s.currentPhase_ = COMMIT /\ v.phase = COMMIT
    /\ Len(VotesOf(s.voteStore_, v.proposalID, COMMIT)) + 1 >= getQuorumSize

----------------------------------------------------------------------------
(* SpecLive: the engine driven by the messages that reach it and by the     *)
(* node's self messages.  TriBFTApp::handleSelfMsg dispatches the consensus *)
(* timer and the ELECTION_CHECK message to handlers that touch the engine;  *)
(* consensusTimeout_ is read from the parameters and never scheduled, so no *)
(* self message calls handleTimeout.  The timers are weakly fair; messages  *)
(* may be lost, so their handlers are not.                                  *)

NextLive ==
    \/ HandleProposal
    \/ HandleVote
    \/ HandlePhaseAdvance
    \/ OnConsensusTimer
    \/ OnElectionCheck

SpecLive ==
    /\ Init /\ [][NextLive]_vars
    /\ WF_vars(OnConsensusTimer)
    /\ WF_vars(OnElectionCheck)

\* C13: under fair timers, a node whose phase has left IDLE eventually is
\* back in IDLE (by commit or by the consensus timeout)
C13_RoundEventuallyEnds == (currentPhase_ # IDLE) ~> (currentPhase_ = IDLE)


\* C14: handle_timeout in PREPARE, PRE_COMMIT or COMMIT abandons the active
\* proposal (IDLE, no active proposal, empty vote buffer, failed_consensus
\* one higher, current_height unchanged); with no active proposal it changes
\* nothing
C14_TimeoutAbandonsProposal ==
    LET r == handleTimeout(St)
    IN /\ (hasActiveProposal_ /\ currentPhase_ \in {PREPARE, PRE_COMMIT, COMMIT})
            => /\ r.currentPhase_ = IDLE
               /\ ~r.hasActiveProposal_
               /\ r.voteStore_ = EmptyMap
               /\ r.metrics_.failedConsensus = metrics_.failedConsensus + 1
               /\ r.currentHeight_ = currentHeight_
       /\ ~hasActiveProposal_ => r = St

\* C14 witness: a timeout abandoned a proposal the node had accepted
C14_Witness ==
    /\ last = "handleTimeout"
    /\ metrics_.failedConsensus = 1
    /\ currentProposal_.proposalID = IdA
    /\ currentPhase_ = IDLE /\ ~hasActiveProposal_ /\ voteStore_ = EmptyMap
    /\ currentHeight_ = 0


\* The proposal ids handle_phase_advance may be called with
AdvanceIDs == ExtIDs \cup {currentProposal_.proposalID}

\* The case in which the spec lets a follower advance: the notification names
\* the active proposal and to_phase is the direct successor of the current phase
LegalAdvance(id, toPhase) ==
    /\ hasActiveProposal_ /\ id = currentProposal_.proposalID
    /\ currentPhase_ \in {PREPARE, PRE_COMMIT}
    /\ toPhase = ExpectedNext(currentPhase_)

\* The positions in `out` of the node's approve votes for (id, phase)
ApproveVotes(out, id, phase) ==
    { j \in 1..Len(out) : out[j] = Msg("vote", id, phase, TRUE, NodeID) }

\* C15: handle_phase_advance(proposal_id, to_phase) emits exactly one approve
\* vote for to_phase and leaves the old phase when the node has an active
\* proposal with that id and to_phase is the direct successor of its phase;
\* in every other case it changes no state and emits nothing
C15_PhaseAdvanceOnlyWhenLegal ==
    \A id \in AdvanceIDs, toPhase \in IDLE..COMMIT :
        LET r == handlePhaseAdvance(St, id, toPhase)
        IN IF LegalAdvance(id, toPhase)
           THEN /\ Cardinality(ApproveVotes(r.out, id, toPhase)) = 1
                /\ r.currentPhase_ # currentPhase_
           ELSE r = St


\* The handler result r carries no vote of this node
EmitsNoVote(r) == \A j \in 1..Len(r.out) : r.out[j].type # "vote"

\* The roles the spec lets vote
VotingRoles == {CONSENSUS_PRIMARY, RSU_PERMANENT}

\* C16: whichever handler a proposal, a phase advance or the consensus timer
\* goes through, a node whose role (when the handler votes) is Redundant or
\* Ordinary emits no vote
C16_OnlyVotingMembersVote ==
    /\ \A p \in ProposalMessages, role \in NodeRole :
          LET r == App_handleProposalMessage(St, p, role)
          IN r.nodeRole_ \notin VotingRoles => EmitsNoVote(r)
    /\ LET r == App_handleDisguisedProposal(St, IdA, ExtLeader)
       IN r.nodeRole_ \notin VotingRoles => EmitsNoVote(r)
    /\ \A toPhase \in PREPARE..COMMIT :
          LET r == handlePhaseAdvance(St, IdA, toPhase)
          IN r.nodeRole_ \notin VotingRoles => EmitsNoVote(r)
    /\ \A leader \in BOOLEAN, batch \in TxLists :
          LET r == App_handleConsensusTimer(St, FALSE, nodeRole_, shardSize_, leader, batch)
          IN r.nodeRole_ \notin VotingRoles => EmitsNoVote(r)


\* The votes a node may receive: of either voter, for a known or an unknown
\* proposal, for any phase
ReceivedVotes ==
    { VoteInfo(id, voter, ph, TRUE) :
        id \in AdvanceIDs, voter \in ExtVoters \cup {NodeID}, ph \in PREPARE..COMMIT }

\* C17: handle_vote ignores, without storing it, a vote for an unknown proposal
\* or one received with no active proposal; it only records a vote for a
\* phase earlier than the current one (no phase change, nothing emitted); and
\* it changes the phase only for a vote for the active proposal and the
\* current phase
C17_VoteActsOnlyOnCurrentPhase ==
    \A v \in ReceivedVotes :
        LET r == handleVote(St, v)
            known == hasActiveProposal_ /\ v.proposalID = currentProposal_.proposalID
        IN /\ ~known => r = St
           /\ (known /\ v.phase < currentPhase_)
                 => r = [St EXCEPT !.voteStore_ = PushVote(@, v)]
           /\ r.currentPhase_ # currentPhase_ => (known /\ v.phase = currentPhase_)

\* C17 witness: the other member's Prepare vote arrived after the node had
\* advanced to PRE_COMMIT and was recorded there
C17_Witness ==
    /\ last = "handleVote"
    /\ hasActiveProposal_ /\ currentPhase_ = PRE_COMMIT
    /\ VotesOf(voteStore_, currentProposal_.proposalID, PREPARE)
          = <<VoteInfo(IdA, NodeID, PREPARE, TRUE), VoteInfo(IdA, "n2", PREPARE, TRUE)>>
    /\ VotesOf(voteStore_, currentProposal_.proposalID, PRE_COMMIT)
          = <<VoteInfo(IdA, NodeID, PRE_COMMIT, TRUE)>>
    /\ VotesOf(voteStore_, currentProposal_.proposalID, COMMIT) = << >>


----------------------------------------------------------------------------
(* The reputation manager (VRMManager) *)

\* Constants:: of TriBFTDefs.h in ten-thousandths
MIN_REPUTATION == 0
MAX_REPUTATION == 10000
INITIAL_REPUTATION == 5000
REPUTATION_DECAY_RATE == 100

PositiveEvents ==
    {"PROPOSE_VALID_BLOCK", "VOTE_CORRECTLY", "SUCCESSFUL_CONSENSUS",
     "SUCCESSFUL_TX", "SUCCESSFUL_VOTE"}
NegativeEvents ==
    {"PROPOSE_INVALID_BLOCK", "VOTE_INCORRECTLY", "TIMEOUT", "MALICIOUS_BEHAVIOR",
     "FAILED_CONSENSUS", "FAILED_TX", "FAILED_VOTE"}
ReputationEvent == PositiveEvents \cup NegativeEvents

EventWeight(w, decay) == [baseWeight |-> w, useMarginalDecay |-> decay]

\* EventWeight::getEffectiveWeight
getEffectiveWeight(weight, currentReputation) ==
    IF weight.useMarginalDecay
    THEN (weight.baseWeight * MAX_REPUTATION) \div (MAX_REPUTATION + currentReputation)
    ELSE weight.baseWeight

\* ReputationRecord::ReputationRecord(id)
ReputationRecord(id) ==
    [nodeID |-> id, globalReputation |-> 5000, localPerformance |-> 5000,
     localInteractionCount |-> 0, score |-> 5000, recentEvents |-> << >>]

\* std::exp(-LAMBDA * n) with LAMBDA = 0.1, in ten-thousandths
ExpNegLambda(n) ==
    LET table == <<10000, 9048, 8187, 7408, 6703, 6065, 5488, 4966, 4493, 4066,
                 3679, 3329, 3012, 2725, 2466, 2231, 2019, 1827, 1653, 1496,
                 1353, 1225, 1108, 1003, 907, 821, 743, 672, 608, 550,
                 498, 450, 408, 369, 334, 302, 273, 247, 224, 202,
                 183, 166, 150, 136, 123, 111, 101, 91, 82, 74,
                 67, 61, 55, 50, 45, 41, 37, 33, 30, 27,
                 25, 22, 20, 18, 17, 15, 14, 12, 11, 10,
                 9, 8, 7, 7, 6, 6, 5, 5, 4, 4,
                 3, 3, 3, 2, 2, 2, 2, 2, 2, 1,
                 1, 1, 1, 1, 1, 1, 1, 1, 1, 1>>
    IN IF n < Len(table) THEN table[n + 1] ELSE 0

\* ReputationRecord::getFinalReputation
getFinalReputation(record) ==
    LET w == ExpNegLambda(record.localInteractionCount)
    IN (w * record.globalReputation + (MAX_REPUTATION - w) * record.localPerformance)
          \div MAX_REPUTATION

\* ReputationRecord::isReliable
isReliable(record) == getFinalReputation(record) >= 8000

\* VRMManager::isReliable
isReliableNode(records, nodeID) ==
    IF nodeID \in DOMAIN records THEN isReliable(records[nodeID]) ELSE FALSE

\* VRMManager::clampReputation
clampReputation(score) ==
    IF score < MIN_REPUTATION THEN MIN_REPUTATION
    ELSE IF score > MAX_REPUTATION THEN MAX_REPUTATION
    ELSE score

isRegistered(records, nodeID) == nodeID \in DOMAIN records

\* Mutant of registerNode: the initial score is stored as given
registerNode_NoClamp(records, nodeID, initialScore) ==
    IF isRegistered(records, nodeID) THEN records
    ELSE [n \in DOMAIN records \cup {nodeID} |->
             IF n = nodeID THEN [ReputationRecord(nodeID) EXCEPT !.score = initialScore]
             ELSE records[n]]

\* VRMManager::registerNode
registerNode(records, nodeID, initialScore) ==
    IF isRegistered(records, nodeID) THEN records
    ELSE [n \in DOMAIN records \cup {nodeID} |->
             IF n = nodeID
             THEN [ReputationRecord(nodeID) EXCEPT !.score = clampReputation(initialScore)]
             ELSE records[n]]

\* VRMManager::unregisterNode
unregisterNode(records, nodeID) ==
    [n \in DOMAIN records \ {nodeID} |-> records[n]]

\* VRMManager::getReputation
getReputation(records, nodeID) ==
    IF isRegistered(records, nodeID) THEN records[nodeID].score ELSE INITIAL_REPUTATION

\* spec.md 4.A "Event taxonomy and weights": positive events beta = 0.05 with
\* marginal decay; invalid proposal 0.08, malicious behaviour 0.20, the other
\* negative events 0.05, all fixed.
getEventWeight(event) ==
    IF event \in PositiveEvents THEN EventWeight(500, TRUE)
    ELSE IF event = "PROPOSE_INVALID_BLOCK" THEN EventWeight(800, FALSE)
    ELSE IF event = "MALICIOUS_BEHAVIOR" THEN EventWeight(2000, FALSE)
    ELSE EventWeight(500, FALSE)

\* spec.md 4.A: when N_l crosses the re-anchor threshold, R_g <- R_l, N_l <- 0
ReanchorThreshold == 100

\* spec.md 4.A "Marginal-diminishing rule": the delta is added to the local
\* performance R_l (clamped to [0,1]) and N_l is incremented; R_g absorbs R_l
\* at the re-anchor threshold.
updateScore(records, nodeID, delta) ==
    IF ~isRegistered(records, nodeID) THEN records
    ELSE LET rec == records[nodeID]
             local == clampReputation(rec.localPerformance + delta)
             count == rec.localInteractionCount + 1
         IN [records EXCEPT ![nodeID] =
                IF count >= ReanchorThreshold
                THEN [rec EXCEPT !.localPerformance = local, !.globalReputation = local,
                                 !.localInteractionCount = 0]
                ELSE [rec EXCEPT !.localPerformance = local,
                                 !.localInteractionCount = count]]

\* The delta VRMManager::recordEvent computes for `event` on record `rec`
EventDelta(rec, event) ==
    LET alpha == getEffectiveWeight(getEventWeight(event), getFinalReputation(rec))
    IN IF event \in PositiveEvents THEN alpha
       ELSE IF event \in NegativeEvents THEN -alpha
       ELSE 0

\* VRMManager::recordEvent
recordEvent(records, nodeID, event) ==
    IF ~isRegistered(records, nodeID) THEN records
    ELSE LET rec == records[nodeID]
             r1 == [records EXCEPT ![nodeID].recentEvents = Append(@, event)]
         IN updateScore(r1, nodeID, EventDelta(rec, event))

\* VRMManager::updateForProposal, updateForVote
updateForProposal(records, proposer, wasValid) ==
    recordEvent(records, proposer,
                IF wasValid THEN "PROPOSE_VALID_BLOCK" ELSE "PROPOSE_INVALID_BLOCK")

updateForVote(records, voter, wasCorrect) ==
    recordEvent(records, voter, IF wasCorrect THEN "VOTE_CORRECTLY" ELSE "VOTE_INCORRECTLY")

\* for (nodeID : participants) recordEvent(nodeID, event)
RECURSIVE RecordForAll(_, _, _)
RecordForAll(records, participants, event) ==
    IF participants = << >> THEN records
    ELSE RecordForAll(recordEvent(records, Head(participants), event),
                      Tail(participants), event)

\* VRMManager::updateForConsensusSuccess, updateForConsensusFail
updateForConsensusSuccess(records, participants) ==
    RecordForAll(records, participants, "SUCCESSFUL_CONSENSUS")

updateForConsensusFail(records, participants) ==
    RecordForAll(records, participants, "FAILED_CONSENSUS")

\* VRMManager::penalizeForTimeout, penalizeForMalicious
penalizeForTimeout(records, nodeID) == recordEvent(records, nodeID, "TIMEOUT")

penalizeForMalicious(records, nodeID) == recordEvent(records, nodeID, "MALICIOUS_BEHAVIOR")

\* The default of cleanupHistory's parameter (VRMManager.h)
MaxEventsPerNode == 100

\* The last n elements of seq
LastN(seq, n) == SubSeq(seq, Len(seq) - n + 1, Len(seq))

\* VRMManager::cleanupHistory
cleanupHistory(records, maxEventsPerNode) ==
    [n \in DOMAIN records |->
        IF Len(records[n].recentEvents) > maxEventsPerNode
        THEN [records[n] EXCEPT !.recentEvents = LastN(@, maxEventsPerNode)]
        ELSE records[n]]

\* VRMManager::applyDecay
applyDecay(records) ==
    [n \in DOMAIN records |->
        [records[n] EXCEPT !.score =
            clampReputation((@ * (MAX_REPUTATION - REPUTATION_DECAY_RATE)
                             + INITIAL_REPUTATION * REPUTATION_DECAY_RATE)
                            \div MAX_REPUTATION)]]

----------------------------------------------------------------------------
(* SpecVRM: the reputation manager driven through its public operations,   *)
(* as TriBFTApp drives it (initializeReputation registers the node with    *)
(* its configured initial reputation and the other shard members with the  *)
(* default; onBlockCommitted reports a successful consensus for the voters *)
(* of the block's certificate; the decay timer calls applyDecay).          *)

VrmNodes == {NodeID, "n2"}

\* initialReputation_ is a parameter: below, inside and above the range
InitialScores == {-5000, INITIAL_REPUTATION, 15000}

\* Participant lists: the voterIDs of a certificate, in order
ParticipantLists == {<<NodeID>>, <<"n2">>, <<NodeID, "n2">>, <<NodeID, NodeID>>}

RECURSIVE RecordedEvents(_, _)
RecordedEvents(records, nodes) ==
    IF nodes = {} THEN 0
    ELSE LET n == CHOOSE x \in nodes : TRUE
         IN Len(records[n].recentEvents) + RecordedEvents(records, nodes \ {n})

\* An operation of the reputation manager ran and left the records recs
ApplyVRM(recs, ticks) ==
    /\ RecordedEvents(recs, DOMAIN recs) <= MaxEvents
    /\ ticks <= MaxDecayTicks
    /\ records_' = recs
    /\ decayTicks' = ticks
    /\ UNCHANGED <<nodeVars, vrfVars, epochVars, shardVars, auxVars>>

RegisterNode ==
    \/ \E init \in InitialScores :
          LET r == registerNode(records_, NodeID, init)
          IN ApplyVRM(r, decayTicks)
    \/ \E n \in VrmNodes \ {NodeID} :
          LET r == registerNode(records_, n, INITIAL_REPUTATION)
          IN ApplyVRM(r, decayTicks)

UnregisterNode ==
    \E n \in VrmNodes :
        LET r == unregisterNode(records_, n) IN ApplyVRM(r, decayTicks)

RecordEvent ==
    \E n \in VrmNodes, e \in {"SUCCESSFUL_TX", "FAILED_TX"} :
        LET r == recordEvent(records_, n, e) IN ApplyVRM(r, decayTicks)

UpdateForProposal ==
    \E n \in VrmNodes, wasValid \in BOOLEAN :
        LET r == updateForProposal(records_, n, wasValid)
        IN ApplyVRM(r, decayTicks)

UpdateForVote ==
    \E n \in VrmNodes, wasCorrect \in BOOLEAN :
        LET r == updateForVote(records_, n, wasCorrect)
        IN ApplyVRM(r, decayTicks)

\* TriBFTApp::onBlockCommitted, its reputation part
OnBlockCommitted ==
    \E participants \in ParticipantLists :
        LET r == updateForConsensusSuccess(records_, participants)
        IN ApplyVRM(r, decayTicks)

UpdateForConsensusFail ==
    \E participants \in ParticipantLists :
        LET r == updateForConsensusFail(records_, participants)
        IN ApplyVRM(r, decayTicks)

PenalizeForTimeout ==
    \E n \in VrmNodes :
        LET r == penalizeForTimeout(records_, n)
        IN ApplyVRM(r, decayTicks)

PenalizeForMalicious ==
    \E n \in VrmNodes :
        LET r == penalizeForMalicious(records_, n)
        IN ApplyVRM(r, decayTicks)

\* TriBFTApp::handleReputationDecayTimer
OnReputationDecayTimer ==
    LET r == applyDecay(records_) IN ApplyVRM(r, decayTicks + 1)

NextVRM ==
    \/ RegisterNode
    \/ UnregisterNode
    \/ RecordEvent
    \/ UpdateForProposal
    \/ UpdateForVote
    \/ OnBlockCommitted
    \/ UpdateForConsensusFail
    \/ PenalizeForTimeout
    \/ PenalizeForMalicious
    \/ OnReputationDecayTimer

SpecVRM == Init /\ [][NextVRM]_vars


----------------------------------------------------------------------------
(* Properties of the reputation manager *)

InRange(x) == MIN_REPUTATION <= x /\ x <= MAX_REPUTATION

RecordInRange(rec) ==
    /\ InRange(rec.score)
    /\ InRange(rec.globalReputation)
    /\ InRange(rec.localPerformance)
    /\ InRange(getFinalReputation(rec))

AllInRange(records) == \A n \in DOMAIN records : RecordInRange(records[n])

NamedPositiveEvents ==
    {"PROPOSE_VALID_BLOCK", "VOTE_CORRECTLY", "SUCCESSFUL_CONSENSUS", "SUCCESSFUL_TX"}

\* C19: for a registered node whose reputation is below 1, recording the same
\* positive event twice in succession raises the reputation both times, the
\* second time by strictly less than the first
C19_PositiveEventsDiminish ==
    \A n \in DOMAIN records_, e \in NamedPositiveEvents :
        LET r1 == recordEvent(records_, n, e)
            r2 == recordEvent(r1, n, e)
            R0 == getFinalReputation(records_[n])
            R1 == getFinalReputation(r1[n])
            R2 == getFinalReputation(r2[n])
        IN R0 < MAX_REPUTATION
           => /\ R1 > R0
              /\ R2 > R1
              /\ R2 - R1 < R1 - R0

\* C20: record_event for a node that is not registered registers it with the
\* default reputation and applies the event: afterwards the node is
\* registered and the event is in its record; so is every participant
\* reported by the commit callback
C20_EventAutoRegisters ==
    /\ \A n \in VrmNodes \ DOMAIN records_, e \in ReputationEvent :
          LET r == recordEvent(records_, n, e)
          IN /\ isRegistered(r, n)
             /\ r[n].recentEvents = <<e>>
    /\ \A participants \in ParticipantLists :
          LET r == updateForConsensusSuccess(records_, participants)
          IN \A j \in 1..Len(participants) : isRegistered(r, participants[j])


\* C21: for every registered node, the node is classified trusted exactly when
\* the score the manager returns for it is at least 0.8
C21_ScoreDecidesTrustTier ==
    \A n \in DOMAIN records_ :
        isReliableNode(records_, n) <=> getReputation(records_, n) >= 8000


----------------------------------------------------------------------------
(* SpecHistory: one node's reputation record under a long stream of events. *)
(* cleanupHistory is a public operation of the manager; no code of the      *)
(* repository calls it.                                                     *)

ApplyHistory(recs) ==
    /\ \A n \in DOMAIN recs : Len(recs[n].recentEvents) <= MaxHistory
    /\ records_' = recs
    /\ UNCHANGED <<nodeVars, decayTicks, vrfVars, epochVars, shardVars, auxVars>>

HistoryRegister ==
    LET r == registerNode(records_, NodeID, INITIAL_REPUTATION) IN ApplyHistory(r)

\* The streams explored repeat one event (a run of successes or of timeouts)
HistoryRecordEvent ==
    \E e \in {"SUCCESSFUL_CONSENSUS", "TIMEOUT"} :
        LET r == recordEvent(records_, NodeID, e)
        IN /\ \A n \in DOMAIN records_ :
                 \A j \in 1..Len(records_[n].recentEvents) : records_[n].recentEvents[j] = e
           /\ ApplyHistory(r)

HistoryCleanup ==
    LET r == cleanupHistory(records_, MaxEventsPerNode) IN ApplyHistory(r)

NextHistory ==
    \/ HistoryRegister
    \/ HistoryRecordEvent
    \/ HistoryCleanup

SpecHistory == Init /\ [][NextHistory]_vars

\* C22: the recent-event queue of a reputation record never holds more than
\* 100 events
C22_RecentEventsCapped ==
    \A n \in DOMAIN records_ : Len(records_[n].recentEvents) <= MaxEventsPerNode

----------------------------------------------------------------------------
(* SpecVRF: one selector, one election. The arguments of the call are drawn *)
(* from ElectArgs; the elected group is stored as the current group and     *)
(* the role map is rebuilt from it (VRFSelector::setCurrentGroup).          *)

ApplySelector(group, args) ==
    /\ currentGroup_' = group
    /\ nodeRoles_' = rolesOf(group)
    /\ electArgs' = args
    /\ UNCHANGED <<nodeVars, vrmVars, lastEpoch_, epochVars, shardVars, auxVars>>

Elect ==
    /\ electArgs = NoArgs
    /\ \E a \in ElectArgs :
           ApplySelector(electConsensusGroup(a.candidates, a.rsuNodes, a.groupSize,
                                             a.redundantCount, a.seed, a.ties), a)

NextVRF == Elect

SpecVRF == Init /\ [][NextVRF]_vars

\* An election was held; electArgs holds its arguments
Elected == electArgs # NoArgs

PrimarySet == SeqToSet(currentGroup_.primaryNodes)

RedundantSet == SeqToSet(currentGroup_.redundantNodes)

RSUCandidates == electArgs.candidates \cap electArgs.rsuNodes

C25_UnderfillDegrades ==
    Elected =>
        /\ Cardinality(electArgs.candidates) < electArgs.groupSize =>
               /\ PrimarySet = electArgs.candidates
               /\ Len(currentGroup_.primaryNodes) = Cardinality(electArgs.candidates)
               /\ currentGroup_.redundantNodes = << >>
        /\ PrimarySet \cap RedundantSet = {}
        /\ PrimarySet \cup RedundantSet \subseteq electArgs.candidates
        /\ Len(currentGroup_.primaryNodes) = Cardinality(PrimarySet)
        /\ Len(currentGroup_.redundantNodes) = Cardinality(RedundantSet)
        /\ Len(currentGroup_.primaryNodes) <= electArgs.groupSize
        /\ Len(currentGroup_.redundantNodes) <= electArgs.redundantCount

\* Two candidates for a group of three with two redundant places asked for
C25_Witness ==
    /\ Elected
    /\ Cardinality(electArgs.candidates) = 2
    /\ electArgs.groupSize = 3
    /\ electArgs.redundantCount = 2
    /\ Len(currentGroup_.primaryNodes) = 2
    /\ currentGroup_.redundantNodes = << >>

----------------------------------------------------------------------------
(* SpecEpoch: the application's epoch bookkeeping. The two handlers that    *)
(* ask needsReelection, the consensus timer and the election check, run as  *)
(* the code runs them; blocks are committed by the node's own proposals.    *)
(* The election check reschedules itself every 5 s whatever it finds, so    *)
(* it is taken again whenever it has something to do.                       *)

epochBlocks_ == 10

getCurrentEpoch(committedBlockCount) == committedBlockCount \div epochBlocks_

needsReelection_Always(lastElectionEpoch, committedBlockCount) == TRUE

needsReelection(lastElectionEpoch, committedBlockCount) ==
    LET currentEpoch == getCurrentEpoch(committedBlockCount)
    IN IF lastElectionEpoch = -1 THEN TRUE
       ELSE IF currentEpoch > lastElectionEpoch THEN TRUE
       ELSE FALSE

\* VRFSelector::needsReelection
Selector_needsReelection(lastEpoch, currentEpoch) == currentEpoch > lastEpoch

\* Number of blocks the commit callback was invoked for during the handler
CommitsIn(msgs) == Cardinality({ i \in 1..Len(msgs) : msgs[i].type = "decide" })

\* A handler ran and left the node in state s; elected tells whether it ran
\* electConsensusGroup, which records the epoch it read before anything else
ApplyEpoch(s, op, elected) ==
    /\ ApplyNode(s, op, MaxEpochBlocks)
    /\ committedBlockCount_' = committedBlockCount_ + CommitsIn(s.out)
    /\ IF elected
       THEN /\ lastElectionEpoch_' = getCurrentEpoch(committedBlockCount_)
            /\ lastEpoch_' = getCurrentEpoch(committedBlockCount_)
            /\ electedEpochs' = Append(electedEpochs, getCurrentEpoch(committedBlockCount_))
       ELSE UNCHANGED <<lastElectionEpoch_, lastEpoch_, electedEpochs>>
    /\ UNCHANGED <<vrmVars, currentGroup_, nodeRoles_, electArgs, shardVars, auxVars>>

EpochConsensusTimer ==
    \E role \in NodeRole, n \in 1..MaxShardSize, leader \in BOOLEAN, batch \in TxLists :
        LET reelect == needsReelection(lastElectionEpoch_, committedBlockCount_)
            r == App_handleConsensusTimer(St, reelect, role, n, leader, batch)
        IN ApplyEpoch(r, "handleConsensusTimer", reelect)

EpochElectionCheck ==
    \E role \in NodeRole, n \in 1..MaxShardSize :
        LET reelect == needsReelection(lastElectionEpoch_, committedBlockCount_)
            r == IF reelect THEN App_electConsensusGroup(St, role, n) ELSE St
        IN ApplyEpoch(r, "handleElectionCheck", reelect)

NextEpoch ==
    \/ EpochConsensusTimer
    \/ EpochElectionCheck

SpecEpoch ==
    /\ Init
    /\ [][NextEpoch]_vars
    /\ WF_vars(EpochElectionCheck)

CurrentEpoch == getCurrentEpoch(committedBlockCount_)

NeedsReelection == needsReelection(lastElectionEpoch_, committedBlockCount_)

\* The epoch bookkeeping at rest: re-election is needed exactly when no
\* election ran yet or the current epoch is past the last elected one; the
\* recorded epoch is that of the last election; no epoch was elected twice
EpochBookkeeping ==
    /\ NeedsReelection <=>
           \/ electedEpochs = << >>
           \/ CurrentEpoch > electedEpochs[Len(electedEpochs)]
    /\ electedEpochs # << >> => lastElectionEpoch_ = electedEpochs[Len(electedEpochs)]
    /\ \A i, j \in 1..Len(electedEpochs) : i < j => electedEpochs[i] < electedEpochs[j]

\* A step that runs an election records the epoch that was current when the
\* handler began, and only a step taken when re-election was needed runs one
ElectionStep ==
    electedEpochs' # electedEpochs =>
        /\ NeedsReelection
        /\ lastElectionEpoch_' = CurrentEpoch
        /\ electedEpochs' = Append(electedEpochs, CurrentEpoch)

\* C26: needsReelection is true exactly when the current epoch (committed
\* blocks divided by the epoch length) is greater than the last elected one
\* or no election ran yet; an election records the current epoch; so a node
\* runs at most one election per epoch, and whenever one is needed (at the
\* start, and after every increase of the epoch) one is eventually run.
C26_EpochBoundaryReelection ==
    /\ []EpochBookkeeping
    /\ [][ElectionStep]_vars
    /\ NeedsReelection ~> ~NeedsReelection

\* Ten blocks were committed, and the elections of epoch 0 and epoch 1 ran
C26_Witness ==
    /\ committedBlockCount_ >= epochBlocks_
    /\ electedEpochs = <<0, 1>>
    /\ lastElectionEpoch_ = 1

----------------------------------------------------------------------------
(* The regional shard manager (RegionalShardManager). Nodes are numbers,    *)
(* the empty leader is NoNode. Locations lie on one line, so that the       *)
(* distance sqrt(dx*dx + dy*dy) is |dx|; they are multiples of LocUnit,     *)
(* which every member count divides, so that a centroid is an exact number. *)
(* electLeaderByReputation is withheld in the source and follows section    *)
(* 4.C of the specification; the rest follows RegionalShardManager.cc. The  *)
(* split and merge counters are counted from the start of each operation;   *)
(* the join and leave counters are left out.                                *)

NoNode == 0

ShardNodes == 1..MaxShardNodes

RECURSIVE Factorial(_)
Factorial(n) == IF n <= 1 THEN 1 ELSE n * Factorial(n - 1)

LocUnit == Factorial(MaxShardNodes)

Locations == {0, LocUnit, 2 * LocUnit}

ShardReputations == {INITIAL_REPUTATION}

\* The configuration RegionalShardManager::initialize is given
shardRadius_ == LocUnit

minShardSize_ == 2

maxShardSize_ == 2

ShardInfo(shardID, centerPoint, radius) ==
    [shardID |-> shardID, centerPoint |-> centerPoint, radius |-> radius,
     members |-> {}, leader |-> NoNode]

\* ShardInfo::ShardInfo, what shards_[id] creates for an id it does not hold
DefaultShardInfo == ShardInfo(-1, 0, 0)

distanceTo(a, b) == IF a >= b THEN a - b ELSE b - a

contains(shard, location) == distanceTo(shard.centerPoint, location) <= shard.radius

getMemberCount(shard) == Cardinality(shard.members)

MapPut(map, key, value) ==
    [k \in DOMAIN map \cup {key} |-> IF k = key THEN value ELSE map[k]]

MapErase(map, key) == [k \in DOMAIN map \ {key} |-> map[k]]

\* The manager's state as one value; totalSplits_ and totalMerges_ count the
\* splits and merges of the operation that is running
Mgr ==
    [shards_ |-> shards_, nodeShardMap_ |-> nodeShardMap_,
     nodeLocationMap_ |-> nodeLocationMap_, nodeReputationMap_ |-> nodeReputationMap_,
     nextShardID_ |-> nextShardID_, totalSplits_ |-> 0, totalMerges_ |-> 0]

\* shards_[id] of the source: the entry, created by default when absent
ShardAt(m, shardID) ==
    IF shardID \in DOMAIN m.shards_ THEN m
    ELSE [m EXCEPT !.shards_ = MapPut(@, shardID, DefaultShardInfo)]

canAcceptMember(m, shardID) ==
    IF shardID \in DOMAIN m.shards_
    THEN getMemberCount(m.shards_[shardID]) < maxShardSize_
    ELSE FALSE

shouldSplitShard(m, shardID) ==
    IF shardID \in DOMAIN m.shards_
    THEN getMemberCount(m.shards_[shardID]) > maxShardSize_
    ELSE FALSE

shouldMergeShard(m, shardID) ==
    IF shardID \in DOMAIN m.shards_
    THEN getMemberCount(m.shards_[shardID]) < minShardSize_
    ELSE FALSE

\* The first shard, in the order of the ids, among those of ids at the
\* least distance from location
NearestOf(m, ids, location) ==
    IF ids = {} THEN NoShard
    ELSE CHOOSE id \in ids : \A other \in ids :
             LET d == distanceTo(m.shards_[id].centerPoint, location)
                 e == distanceTo(m.shards_[other].centerPoint, location)
             IN d < e \/ (d = e /\ id <= other)

getShardForLocation(m, location) ==
    NearestOf(m, { id \in DOMAIN m.shards_ :
                      contains(m.shards_[id], location) /\ canAcceptMember(m, id) },
              location)

findNearestShard(m, location) == NearestOf(m, DOMAIN m.shards_, location)

createShard(m, centerPoint) ==
    [m EXCEPT !.shards_ = MapPut(@, m.nextShardID_,
                                 ShardInfo(m.nextShardID_, centerPoint, shardRadius_)),
              !.nextShardID_ = @ + 1]

ReputationOf(m, nodeID) ==
    IF nodeID \in DOMAIN m.nodeReputationMap_ THEN m.nodeReputationMap_[nodeID] ELSE 0

electLeaderByReputation(m, shardID) ==
    LET members == m.shards_[shardID].members
    IN IF members = {} THEN NoNode
       ELSE CHOOSE n \in members : \A o \in members :
                \/ ReputationOf(m, n) > ReputationOf(m, o)
                \/ ReputationOf(m, n) = ReputationOf(m, o) /\ n <= o

electLeader(m, shardID) ==
    IF shardID \notin DOMAIN m.shards_ THEN m
    ELSE [m EXCEPT !.shards_[shardID].leader = electLeaderByReputation(m, shardID)]

RECURSIVE SumOfLocations(_, _)
SumOfLocations(m, nodes) ==
    IF nodes = {} THEN 0
    ELSE LET n == CHOOSE x \in nodes : TRUE
         IN m.nodeLocationMap_[n] + SumOfLocations(m, nodes \ {n})

calculateSplitPoint(m, shard) ==
    IF shard.members = {} THEN shard.centerPoint
    ELSE LET located == shard.members \cap DOMAIN m.nodeLocationMap_
             count == Cardinality(located)
         IN IF count > 0 THEN SumOfLocations(m, located) \div count
            ELSE shard.centerPoint

MoveMembers_KeepsIndex(m, nodes, from, to) ==
    [m EXCEPT !.shards_ = [id \in DOMAIN m.shards_ |->
                              IF id = to
                              THEN [m.shards_[id] EXCEPT !.members = @ \cup nodes]
                              ELSE IF id = from
                              THEN [m.shards_[id] EXCEPT !.members = @ \ nodes]
                              ELSE m.shards_[id]]]

\* The members of a set moved from one shard to another, the index following
MoveMembers(m, nodes, from, to) ==
    [m EXCEPT !.shards_ = [id \in DOMAIN m.shards_ |->
                              IF id = to
                              THEN [m.shards_[id] EXCEPT !.members = @ \cup nodes]
                              ELSE IF id = from
                              THEN [m.shards_[id] EXCEPT !.members = @ \ nodes]
                              ELSE m.shards_[id]],
              !.nodeShardMap_ = [n \in DOMAIN m.nodeShardMap_ \cup nodes |->
                                    IF n \in nodes THEN to ELSE m.nodeShardMap_[n]]]

splitShard(m, shardID) ==
    IF shardID \notin DOMAIN m.shards_ THEN m
    ELSE LET originalShard == m.shards_[shardID]
         IN IF getMemberCount(originalShard) <= minShardSize_ THEN m
            ELSE LET splitPoint == calculateSplitPoint(m, originalShard)
                     newShardID == m.nextShardID_
                     m1 == createShard(m, splitPoint)
                     membersToMove ==
                         { n \in originalShard.members \cap DOMAIN m.nodeLocationMap_ :
                               distanceTo(splitPoint, m.nodeLocationMap_[n])
                                   < distanceTo(originalShard.centerPoint, m.nodeLocationMap_[n]) }
                     m2 == MoveMembers(m1, membersToMove, shardID, newShardID)
                     m3 == electLeader(electLeader(m2, shardID), newShardID)
                 IN [m3 EXCEPT !.totalSplits_ = @ + 1]

mergeShard(m, shardID) ==
    IF shardID \notin DOMAIN m.shards_ THEN m
    ELSE LET nearestShard == findNearestShard(m, m.shards_[shardID].centerPoint)
         IN IF nearestShard = NoShard \/ nearestShard = shardID THEN m
            ELSE LET m1 == MoveMembers(m, m.shards_[shardID].members, NoShard, nearestShard)
                     m2 == [m1 EXCEPT !.shards_ = MapErase(@, shardID)]
                     m3 == electLeader(m2, nearestShard)
                 IN [m3 EXCEPT !.totalMerges_ = @ + 1]

addNode(m, nodeID, location, reputation) ==
    IF nodeID \in DOMAIN m.nodeShardMap_ THEN m
    ELSE LET m1 == [m EXCEPT !.nodeLocationMap_ = MapPut(@, nodeID, location),
                             !.nodeReputationMap_ = MapPut(@, nodeID, reputation)]
             found == getShardForLocation(m1, location)
             m2 == IF found = NoShard THEN createShard(m1, location) ELSE m1
             shardID == IF found = NoShard THEN m1.nextShardID_ ELSE found
             m3 == [m2 EXCEPT !.shards_[shardID].members = @ \cup {nodeID},
                              !.nodeShardMap_ = MapPut(@, nodeID, shardID)]
             m4 == IF m3.shards_[shardID].leader = NoNode
                   THEN electLeader(m3, shardID) ELSE m3
         IN IF shouldSplitShard(m4, shardID) THEN splitShard(m4, shardID) ELSE m4

removeNode_KeepsLocation(m, nodeID) ==
    IF nodeID \notin DOMAIN m.nodeShardMap_ THEN m
    ELSE LET shardID == m.nodeShardMap_[nodeID]
             m0 == ShardAt(m, shardID)
             m1 == [m0 EXCEPT !.shards_[shardID].members = @ \ {nodeID}]
             m2 == IF m1.shards_[shardID].leader = nodeID
                   THEN LET cleared == [m1 EXCEPT !.shards_[shardID].leader = NoNode]
                        IN IF cleared.shards_[shardID].members # {}
                           THEN electLeader(cleared, shardID) ELSE cleared
                   ELSE m1
             m3 == [m2 EXCEPT !.nodeShardMap_ = MapErase(@, nodeID),
                              !.nodeReputationMap_ = MapErase(@, nodeID)]
         IN IF m3.shards_[shardID].members = {}
            THEN [m3 EXCEPT !.shards_ = MapErase(@, shardID)]
            ELSE IF shouldMergeShard(m3, shardID) THEN mergeShard(m3, shardID)
            ELSE m3

removeNode_KeepsLeader(m, nodeID) ==
    IF nodeID \notin DOMAIN m.nodeShardMap_ THEN m
    ELSE LET shardID == m.nodeShardMap_[nodeID]
             m0 == ShardAt(m, shardID)
             m1 == [m0 EXCEPT !.shards_[shardID].members = @ \ {nodeID}]
             m3 == [m1 EXCEPT !.nodeShardMap_ = MapErase(@, nodeID),
                              !.nodeLocationMap_ = MapErase(@, nodeID),
                              !.nodeReputationMap_ = MapErase(@, nodeID)]
         IN IF m3.shards_[shardID].members = {}
            THEN [m3 EXCEPT !.shards_ = MapErase(@, shardID)]
            ELSE IF shouldMergeShard(m3, shardID) THEN mergeShard(m3, shardID)
            ELSE m3

removeNode(m, nodeID) ==
    IF nodeID \notin DOMAIN m.nodeShardMap_ THEN m
    ELSE LET shardID == m.nodeShardMap_[nodeID]
             m0 == ShardAt(m, shardID)
             m1 == [m0 EXCEPT !.shards_[shardID].members = @ \ {nodeID}]
             m2 == IF m1.shards_[shardID].leader = nodeID
                   THEN LET cleared == [m1 EXCEPT !.shards_[shardID].leader = NoNode]
                        IN IF cleared.shards_[shardID].members # {}
                           THEN electLeader(cleared, shardID) ELSE cleared
                   ELSE m1
             m3 == [m2 EXCEPT !.nodeShardMap_ = MapErase(@, nodeID),
                              !.nodeLocationMap_ = MapErase(@, nodeID),
                              !.nodeReputationMap_ = MapErase(@, nodeID)]
         IN IF m3.shards_[shardID].members = {}
            THEN [m3 EXCEPT !.shards_ = MapErase(@, shardID)]
            ELSE IF shouldMergeShard(m3, shardID) THEN mergeShard(m3, shardID)
            ELSE m3

updateNodeLocation_NeverReassigns(m, nodeID, newLocation) ==
    IF nodeID \notin DOMAIN m.nodeShardMap_ THEN m
    ELSE [m EXCEPT !.nodeLocationMap_ = MapPut(@, nodeID, newLocation)]

updateNodeLocation(m, nodeID, newLocation) ==
    IF nodeID \notin DOMAIN m.nodeShardMap_ THEN m
    ELSE LET currentShardID == m.nodeShardMap_[nodeID]
             m1 == ShardAt([m EXCEPT !.nodeLocationMap_ = MapPut(@, nodeID, newLocation)],
                           currentShardID)
         IN IF contains(m1.shards_[currentShardID], newLocation) THEN m1
            ELSE LET m2 == removeNode(m1, nodeID)
                     reputation == ReputationOf(m2, nodeID)
                     m3 == [m2 EXCEPT !.nodeReputationMap_ = MapPut(@, nodeID, reputation)]
                 IN addNode(m3, nodeID, newLocation, reputation)

\* The shards of ids, in the order of the ids, handled one after the other
RECURSIVE SplitEach(_, _)
SplitEach(m, ids) ==
    IF ids = {} THEN m
    ELSE LET id == CHOOSE x \in ids : \A y \in ids : x <= y
         IN SplitEach(splitShard(m, id), ids \ {id})

RECURSIVE MergeEach(_, _)
MergeEach(m, ids) ==
    IF ids = {} THEN m
    ELSE LET id == CHOOSE x \in ids : \A y \in ids : x <= y
         IN MergeEach(IF id \in DOMAIN m.shards_ THEN mergeShard(m, id) ELSE m,
                      ids \ {id})

rebalanceShards(m) ==
    LET toSplit == { id \in DOMAIN m.shards_ : shouldSplitShard(m, id) }
        m1 == SplitEach(m, toSplit)
        toMerge == { id \in DOMAIN m1.shards_ : shouldMergeShard(m1, id) }
    IN MergeEach(m1, toMerge)

----------------------------------------------------------------------------
(* SpecShard: the manager under its public operations.                      *)

\* An operation ran and left the manager in state m
ApplyShard(m) ==
    /\ m.nextShardID_ <= MaxShards
    /\ shards_' = m.shards_
    /\ nodeShardMap_' = m.nodeShardMap_
    /\ nodeLocationMap_' = m.nodeLocationMap_
    /\ nodeReputationMap_' = m.nodeReputationMap_
    /\ nextShardID_' = m.nextShardID_
    /\ UNCHANGED <<nodeVars, vrmVars, vrfVars, epochVars, auxVars>>

AddNode ==
    \E n \in ShardNodes, location \in Locations, reputation \in ShardReputations :
        ApplyShard(addNode(Mgr, n, location, reputation))

RemoveNode == \E n \in ShardNodes : ApplyShard(removeNode(Mgr, n))

UpdateNodeLocation ==
    \E n \in ShardNodes, location \in Locations :
        ApplyShard(updateNodeLocation(Mgr, n, location))

RebalanceShards == ApplyShard(rebalanceShards(Mgr))

NextShard ==
    \/ AddNode
    \/ RemoveNode
    \/ UpdateNodeLocation
    \/ RebalanceShards

SpecShard == Init /\ [][NextShard]_vars


\* C27: a node is a member of shard S exactly when the node-to-shard index
\* maps it to S, every shard the index names is in the registry, and so no
\* node is a member of two shards.
C27_IndexAgreesWithMembership ==
    /\ \A n \in DOMAIN nodeShardMap_ : nodeShardMap_[n] \in DOMAIN shards_
    /\ \A id \in DOMAIN shards_ : \A n \in ShardNodes :
           n \in shards_[id].members <=>
               (n \in DOMAIN nodeShardMap_ /\ nodeShardMap_[n] = id)
    /\ \A id \in DOMAIN shards_ : shards_[id].members \subseteq ShardNodes
    /\ \A a, b \in DOMAIN shards_ :
           a # b => shards_[a].members \cap shards_[b].members = {}

\* C28: every member of every shard has a last-known location, and it lies
\* within the shard's radius of the shard's centre.
C28_MembersWithinRadius ==
    \A id \in DOMAIN shards_ : \A n \in shards_[id].members :
        /\ n \in DOMAIN nodeLocationMap_
        /\ contains(shards_[id], nodeLocationMap_[n])

\* C29: each shard's leader is empty or one of its members, and it is
\* non-empty exactly when the shard has a member.
C29_LeaderIsAMember ==
    \A id \in DOMAIN shards_ :
        /\ shards_[id].leader \in shards_[id].members \cup {NoNode}
        /\ shards_[id].leader # NoNode <=> shards_[id].members # {}

\* C30: no shard holds more than max_shard_size members (a merge transfers
\* members only into a shard with room for them).
C30_NoShardOverfilled ==
    \A id \in DOMAIN shards_ : getMemberCount(shards_[id]) <= maxShardSize_


\* A merge moved the members of an undersized shard into another shard, which
\* now holds more than max_shard_size members, all of them indexed to it
C27_Witness ==
    \E id \in DOMAIN shards_ :
        /\ getMemberCount(shards_[id]) > maxShardSize_
        /\ \A n \in shards_[id].members : nodeShardMap_[n] = id

\* A shard that received members by a merge and whose members are at two
\* different locations
C28_Witness ==
    \E id \in DOMAIN shards_ :
        /\ getMemberCount(shards_[id]) > maxShardSize_
        /\ \E a, b \in shards_[id].members : nodeLocationMap_[a] # nodeLocationMap_[b]

\* After a split that moved every member: the emptied shard without leader
\* next to a shard led by one of its members
C29_Witness ==
    \E a, b \in DOMAIN shards_ :
        /\ shards_[a].members = {}
        /\ shards_[a].leader = NoNode
        /\ shards_[b].members # {}
        /\ shards_[b].leader \in shards_[b].members


----------------------------------------------------------------------------
(* The boundary of a full shard, and the round trip of a join and a leave.  *)

FullShards == { id \in DOMAIN shards_ : getMemberCount(shards_[id]) = maxShardSize_ }

UnknownNodes == ShardNodes \ DOMAIN nodeShardMap_

\* One more join inside a full shard splits that shard: a split is counted,
\* and the shard's members and the new node are divided between the shard
\* and a shard that did not exist before
JoinSplitsFullShard ==
    \A id \in FullShards : \A n \in UnknownNodes :
        \A location \in Locations, reputation \in ShardReputations :
            contains(shards_[id], location) =>
                LET r == addNode(Mgr, n, location, reputation)
                IN /\ r.totalSplits_ = 1
                   /\ \E new \in DOMAIN r.shards_ \ DOMAIN shards_ :
                          r.shards_[id].members \cup r.shards_[new].members
                              = shards_[id].members \cup {n}

\* One leave from a full shard splits nothing and merges nothing
LeaveTriggersNothing ==
    \A id \in FullShards : \A n \in shards_[id].members :
        LET r == removeNode(Mgr, n)
        IN r.totalSplits_ = 0 /\ r.totalMerges_ = 0

\* C31: for a shard holding exactly max_shard_size members, one more
\* add_node at a location inside its radius splits that shard, while one
\* remove_node from it triggers neither a split nor a merge.
C31_SplitBoundary == JoinSplitsFullShard /\ LeaveTriggersNothing


RECURSIVE TotalMembers(_, _)
TotalMembers(shards, ids) ==
    IF ids = {} THEN 0
    ELSE LET id == CHOOSE x \in ids : TRUE
         IN getMemberCount(shards[id]) + TotalMembers(shards, ids \ {id})

\* The number of members, all shards together
memberCount(m) == TotalMembers(m.shards_, DOMAIN m.shards_)

\* C32: from a state in which node n is unknown, add_node(n, loc, rep)
\* followed by remove_node(n) restores the total member count and leaves no
\* location, reputation or shard-index entry for n, and n in no shard.
C32_AddRemoveRoundTrip ==
    \A n \in UnknownNodes : \A location \in Locations, reputation \in ShardReputations :
        LET added == addNode(Mgr, n, location, reputation)
            r == removeNode(added, n)
        IN /\ memberCount(added) = memberCount(Mgr) + 1
           /\ memberCount(r) = memberCount(Mgr)
           /\ n \notin DOMAIN r.nodeLocationMap_
           /\ n \notin DOMAIN r.nodeReputationMap_
           /\ n \notin DOMAIN r.nodeShardMap_
           /\ \A id \in DOMAIN r.shards_ : n \notin r.shards_[id].members

\* A state with members and an unknown node whose join creates a shard of
\* its own, which its leave deletes again
C32_Witness ==
    /\ memberCount(Mgr) >= 2
    /\ \E n \in UnknownNodes : \E location \in Locations :
           LET added == addNode(Mgr, n, location, INITIAL_REPUTATION)
               r == removeNode(added, n)
           IN /\ DOMAIN added.shards_ # DOMAIN shards_
              /\ DOMAIN r.shards_ = DOMAIN shards_
              /\ r.nextShardID_ = nextShardID_ + 1


----------------------------------------------------------------------------
(* The lightweight synchroniser (src/src/blockchain/LightweightSync.cc):   *)
(* headers_ and fullBlocks_ are maps from heights to headers and blocks.   *)
(* A header carries the fields the synchroniser reads (shardID, timestamp  *)
(* and proposer are copied and never read); a transaction is its txID.     *)
(* std::hash is taken to be injective on the strings hashed here, so the   *)
(* hash value of the concatenated ids is written as the concatenation.     *)
(* Each operation returns the state it leaves with its return value in     *)
(* ret.                                                                    *)

HeaderHeights == 0..MaxHeaderHeight
Hashes == {"a", "b"}
SyncTxLists == {<<"ab", "c">>, <<"a", "bc">>, <<"ab">>}
KeepCounts == {0, 1}

RECURSIVE Combined(_)
Combined(txs) == IF txs = << >> THEN "" ELSE Head(txs) \o Combined(Tail(txs))

\* BlockHeader::calculateMerkleRoot
calculateMerkleRoot(txs) ==
    IF txs = << >> THEN "EMPTY_ROOT" ELSE "MERKLE_" \o Combined(txs)

BlockHeader(height, blockHash, previousHash, merkleRoot, txCount) ==
    [height |-> height, blockHash |-> blockHash, previousHash |-> previousHash,
     merkleRoot |-> merkleRoot, txCount |-> txCount]

\* The blocks a peer may send
Blocks ==
    { Block(h, bh, "a", 0, txs, DefaultQC, EmptyID) :
        h \in HeaderHeights, bh \in Hashes, txs \in SyncTxLists }

\* The headers a peer may send: the header BlockHeader::fromBlock makes of a
\* block, or one whose transaction count does not fit its root
Headers ==
    UNION { { BlockHeader(b.height, b.blockHash, b.previousHash,
                          calculateMerkleRoot(b.transactions), n) :
                n \in {1, Len(b.transactions)} } : b \in Blocks }

Sync == [headers_ |-> headers_, fullBlocks_ |-> fullBlocks_,
         latestHeight_ |-> latestHeight_, ret |-> FALSE]

\* LightweightSync::hasHeader
hasHeader(s, height) == height \in DOMAIN s.headers_

\* LightweightSync::validateHeaderChain
validateHeaderChain(s, header) ==
    IF header.height = 0 THEN TRUE
    ELSE IF ~hasHeader(s, header.height - 1) THEN DOMAIN s.headers_ = {}
    ELSE LET prevHeader == s.headers_[header.height - 1]
         IN /\ header.previousHash = prevHeader.blockHash
            /\ header.height = prevHeader.height + 1

\* LightweightSync::syncHeader
syncHeader(s, header) ==
    IF ~validateHeaderChain(s, header) THEN [s EXCEPT !.ret = FALSE]
    ELSE [s EXCEPT !.headers_ = MapPut(@, header.height, header),
                   !.latestHeight_ = IF header.height > @ THEN header.height ELSE @,
                   !.ret = TRUE]

receiveFullBlock_NoCountCheck(s, block) ==
    IF ~hasHeader(s, block.height) THEN [s EXCEPT !.ret = FALSE]
    ELSE LET header == s.headers_[block.height]
         IN IF header.blockHash # block.blockHash THEN [s EXCEPT !.ret = FALSE]
            ELSE IF header.merkleRoot # calculateMerkleRoot(block.transactions)
                 THEN [s EXCEPT !.ret = FALSE]
            ELSE [s EXCEPT !.fullBlocks_ = MapPut(@, block.height, block), !.ret = TRUE]

\* LightweightSync::receiveFullBlock
receiveFullBlock(s, block) ==
    IF ~hasHeader(s, block.height) THEN [s EXCEPT !.ret = FALSE]
    ELSE LET header == s.headers_[block.height]
         IN IF header.blockHash # block.blockHash THEN [s EXCEPT !.ret = FALSE]
            ELSE IF header.merkleRoot # calculateMerkleRoot(block.transactions)
                 THEN [s EXCEPT !.ret = FALSE]
            ELSE IF header.txCount # Len(block.transactions) THEN [s EXCEPT !.ret = FALSE]
            ELSE [s EXCEPT !.fullBlocks_ = MapPut(@, block.height, block), !.ret = TRUE]

\* LightweightSync::cleanup
cleanup(s, keepCount) ==
    IF s.latestHeight_ <= keepCount THEN s
    ELSE LET cutoff == s.latestHeight_ - keepCount
         IN [s EXCEPT !.headers_ = [h \in { k \in DOMAIN @ : k >= cutoff } |-> @[h]],
                      !.fullBlocks_ = [h \in { k \in DOMAIN @ : k >= cutoff } |-> @[h]]]

ApplySync(s) ==
    /\ headers_' = s.headers_
    /\ fullBlocks_' = s.fullBlocks_
    /\ latestHeight_' = s.latestHeight_
    /\ UNCHANGED <<nodeVars, vrmVars, vrfVars, epochVars, shardVars, poolVars, lrvVars>>

SyncHeader == \E header \in Headers : ApplySync(syncHeader(Sync, header))

ReceiveFullBlock == \E block \in Blocks : ApplySync(receiveFullBlock(Sync, block))

Cleanup == \E keepCount \in KeepCounts : ApplySync(cleanup(Sync, keepCount))

NextSync == SyncHeader \/ ReceiveFullBlock \/ Cleanup

SpecSync == Init /\ [][NextSync]_vars

\* C33: the stored header chain is always linked: whenever headers are stored
\* at h and h-1, the header at h names the block hash of the header at h-1
\* as its previous hash
C33_HeaderChainLinked ==
    \A h \in DOMAIN headers_ :
        (h >= 1 /\ h - 1 \in DOMAIN headers_) =>
            headers_[h].previousHash = headers_[h - 1].blockHash

BlockMatchesHeader(s, block) ==
    /\ block.height \in DOMAIN s.headers_
    /\ s.headers_[block.height].blockHash = block.blockHash
    /\ s.headers_[block.height].merkleRoot = calculateMerkleRoot(block.transactions)
    /\ s.headers_[block.height].txCount = Len(block.transactions)

\* C34: receiveFullBlock stores the block and returns true exactly when a
\* header is stored at the block's height whose hash, Merkle root and
\* transaction count equal the block's; otherwise it returns false and
\* leaves headers and stored blocks unchanged
C34_FullBlockVerified ==
    \A block \in Blocks :
        LET r == receiveFullBlock(Sync, block)
        IN /\ r.ret = BlockMatchesHeader(Sync, block)
           /\ r.ret => /\ block.height \in DOMAIN r.fullBlocks_
                       /\ r.fullBlocks_[block.height] = block
           /\ ~r.ret => r.fullBlocks_ = fullBlocks_
           /\ r.headers_ = headers_

\* A header is stored whose root fits a block of another transaction count,
\* and a verified block is stored
C34_Witness ==
    /\ \E block \in Blocks :
        /\ block.height \in DOMAIN headers_
        /\ headers_[block.height].blockHash = block.blockHash
        /\ headers_[block.height].merkleRoot = calculateMerkleRoot(block.transactions)
        /\ headers_[block.height].txCount # Len(block.transactions)
        /\ ~receiveFullBlock(Sync, block).ret
    /\ \E h \in DOMAIN fullBlocks_ : BlockMatchesHeader(Sync, fullBlocks_[h])


----------------------------------------------------------------------------
(* The leader's transaction pool (TriBFTApp::txPool_).  Transaction ids    *)
(* are unique strings (the sender's name and a counter); a pooled          *)
(* transaction is written as the number of transactions that entered the   *)
(* pool before it, plus one.  Whether a received id is in seenTxIds_,      *)
(* whether the message targets another shard, isLeaderNode_ and            *)
(* autoGenerateTx_ are inputs of the handlers.                             *)

MAX_TRANSACTION_POOL_SIZE == 1000
DEFAULT_BATCH_SIZE == 100
\* par("batchSize"), at its default
batchSize_ == DEFAULT_BATCH_SIZE

Pool == [txPool_ |-> txPool_, txArrivals |-> txArrivals]

\* txPool_.push_back of a transaction with a fresh id
push_back(p) ==
    [p EXCEPT !.txPool_ = Append(@, p.txArrivals + 1), !.txArrivals = @ + 1]

\* TriBFTApp::handleTransactionMessage
handleTransactionMessage(p, seen, wrongShard, leader) ==
    IF seen THEN p
    ELSE IF wrongShard THEN p
    ELSE IF leader THEN push_back(p)
    ELSE p

\* TriBFTApp::handleMessage, txGenerationTimer_ branch
handleTxGenerationTimer(p, autoGenerateTx, leader) ==
    IF autoGenerateTx /\ leader THEN push_back(p) ELSE p

\* TriBFTApp::generateTransactions; numTx is what intuniform(1, 5) draws
RECURSIVE generateTransactions(_, _)
generateTransactions(p, numTx) ==
    IF numTx = 0 THEN p ELSE generateTransactions(push_back(p), numTx - 1)

\* TriBFTApp::handleConsensusTimer with the pool it drains: the engine state
\* and the pool the handler leaves
handleConsensusTimer(s, p, reelect, role, groupSize, leader, numTx) ==
    LET s1 == IF reelect THEN App_electConsensusGroup(s, role, groupSize) ELSE s
        runs == shouldParticipateInConsensus(s1) /\ leader
        p1 == generateTransactions(p, numTx)
        takes == Len(p1.txPool_) >= batchSize_
        batch == IF runs /\ takes THEN SubSeq(p1.txPool_, 1, batchSize_) ELSE << >>
        p2 == IF ~runs THEN p
              ELSE IF takes
                   THEN [p1 EXCEPT !.txPool_ = SubSeq(@, batchSize_ + 1, Len(@))]
                   ELSE p1
    IN [st |-> App_handleConsensusTimer(s, reelect, role, groupSize, leader, batch),
        pool |-> p2]

\* A handler that touches the pool only
ApplyPool(p) ==
    /\ p.txArrivals <= MaxArrivals
    /\ txPool_' = p.txPool_
    /\ txArrivals' = p.txArrivals
    /\ UNCHANGED <<nodeVars, vrmVars, vrfVars, epochVars, shardVars, syncVars, lrvVars>>

\* A handler that runs the engine and touches the pool
ApplyNodeAndPool(s, op, p) ==
    /\ p.txArrivals <= MaxArrivals
    /\ ApplyNode(s, op, MaxHeight)
    /\ txPool_' = p.txPool_
    /\ txArrivals' = p.txArrivals
    /\ UNCHANGED <<vrmVars, vrfVars, epochVars, shardVars, syncVars, lrvVars>>

OnTransactionMessage ==
    \E seen \in BOOLEAN, wrongShard \in BOOLEAN, leader \in BOOLEAN :
        ApplyPool(handleTransactionMessage(Pool, seen, wrongShard, leader))

OnTxGenerationTimer ==
    \E autoGenerateTx \in BOOLEAN, leader \in BOOLEAN :
        ApplyPool(handleTxGenerationTimer(Pool, autoGenerateTx, leader))

OnPoolConsensusTimer ==
    \E reelect \in BOOLEAN, leader \in BOOLEAN, numTx \in 1..5 :
        LET r == handleConsensusTimer(St, Pool, reelect, CONSENSUS_PRIMARY,
                                      MaxShardSize, leader, numTx)
        IN ApplyNodeAndPool(r.st, "handleConsensusTimer", r.pool)

\* HotStuffEngine::handleProposal with the other leader's proposal for the
\* next height: a round is in progress afterwards
OpenRound ==
    currentHeight_ < MaxHeight /\
        LET r == handleProposal(St, ProposalA(currentHeight_ + 1))
        IN ApplyNodeAndPool(r, "handleProposal", Pool)

NextPool ==
    \/ OnTransactionMessage
    \/ OnTxGenerationTimer
    \/ OnPoolConsensusTimer
    \/ OpenRound

SpecPool == Init /\ [][NextPool]_vars

\* C35: the leader's transaction pool never holds more than
\* MAX_TRANSACTION_POOL_SIZE (1000) transactions
C35_PoolCapped == Len(txPool_) <= MAX_TRANSACTION_POOL_SIZE


----------------------------------------------------------------------------
(* The leader's step at a quorum, read off the messages a handler emits *)

\* The votes of this node for a phase, and the phase-advance notifications to
\* a phase, among the messages a handler emitted
OwnVotesFor(msgs, phase) ==
    Cardinality({ i \in 1..Len(msgs) :
        msgs[i].type = "vote" /\ msgs[i].voterID = NodeID /\ msgs[i].phase = phase })

AdvancesTo(msgs, phase) ==
    Cardinality({ i \in 1..Len(msgs) : msgs[i].type = "phase" /\ msgs[i].phase = phase })

\* The handler that left r started in phase from; if it announced the advance
\* from that phase, it stopped in the next phase with one vote for it
AdvancedOnce(r, from) ==
    AdvancesTo(r.out, ExpectedNext(from)) >= 1 =>
        /\ r.currentPhase_ = ExpectedNext(from)
        /\ OwnVotesFor(r.out, ExpectedNext(from)) = 1

\* C36: a leader that collects a quorum for a phase advances by exactly one
\* phase and votes exactly once for the new phase, whether the quorum is
\* completed by its own proposal or by a vote it receives
C36_LeaderAdvancesOnce ==
    /\ \A txs \in TxLists \ {<< >>} :
           canPropose(St) => AdvancedOnce(proposeBlock(St, txs), PREPARE)
    /\ \A v \in Votes :
           currentPhase_ \in {PREPARE, PRE_COMMIT} =>
               AdvancedOnce(handleVote(St, v), currentPhase_)


----------------------------------------------------------------------------
(* The low-reputation verifier (src/src/reputation/LowRepVerifier.cc).     *)
(* An event is its verification status (the reporter, type, data and       *)
(* timestamp are never read by submitVerification); tasks_ is written by   *)
(* assignVerifiers and read by nobody, and is left out.  The threshold is  *)
(* written in hundredths and ratios are compared as fractions: with counts *)
(* this small no ratio is within a rounding error of 0.67 or 0.33.  The    *)
(* verifier state carries, per event, the number of callback calls.        *)

verifiersPerEvent_ == 3
threshold_ == 67

EventIDs == {"e1", "e2"}
VerifierNodes == {"v1", "v2"}

PendingEvent(verificationCount, confirmCount, rejectCount, verified, result) ==
    [verificationCount |-> verificationCount, confirmCount |-> confirmCount,
     rejectCount |-> rejectCount, verified |-> verified, result |-> result]

Verifier == [pendingEvents_ |-> pendingEvents_, verificationCalls |-> verificationCalls]

\* LowRepVerifier::submitEvent; eventID is what generateEventID makes of the
\* reporter and the time
submitEvent(v, eventID) ==
    [v EXCEPT !.pendingEvents_ = MapPut(@, eventID, PendingEvent(0, 0, 0, FALSE, FALSE))]

\* LowRepVerifier::checkVerificationThreshold
checkVerificationThreshold(event) ==
    IF event.verificationCount < verifiersPerEvent_ THEN FALSE
    ELSE \/ event.confirmCount * 100 >= threshold_ * event.verificationCount
         \/ event.rejectCount * 100 > (100 - threshold_) * event.verificationCount

\* LowRepVerifier::submitVerification
submitVerification(v, eventID, verifierID, confirm) ==
    IF eventID \notin DOMAIN v.pendingEvents_ THEN v
    ELSE LET old == v.pendingEvents_[eventID]
             event == [old EXCEPT !.verificationCount = @ + 1,
                                  !.confirmCount = IF confirm THEN @ + 1 ELSE @,
                                  !.rejectCount = IF confirm THEN @ ELSE @ + 1]
         IN IF checkVerificationThreshold(event)
            THEN [v EXCEPT
                    !.pendingEvents_ = MapPut(@, eventID,
                        [event EXCEPT !.verified = TRUE,
                                      !.result = event.confirmCount * 100
                                                   >= threshold_ * event.verificationCount]),
                    !.verificationCalls = MapPut(@, eventID,
                        IF eventID \in DOMAIN @ THEN @[eventID] + 1 ELSE 1)]
            ELSE [v EXCEPT !.pendingEvents_ = MapPut(@, eventID, event)]

\* LowRepVerifier::isEventVerified
isEventVerified(v, eventID) ==
    IF eventID \in DOMAIN v.pendingEvents_ THEN v.pendingEvents_[eventID].verified ELSE FALSE

\* LowRepVerifier::getVerificationResult
getVerificationResult(v, eventID) ==
    IF eventID \in DOMAIN v.pendingEvents_ /\ v.pendingEvents_[eventID].verified
    THEN v.pendingEvents_[eventID].result ELSE FALSE

\* LowRepVerifier::cleanupExpiredEvents; expired are the events older than the
\* timeout
cleanupExpiredEvents(v, expired) ==
    [v EXCEPT !.pendingEvents_ =
        [e \in { x \in DOMAIN @ : ~(x \in expired /\ ~@[x].verified) } |-> @[e]]]

ApplyVerifier(v) ==
    /\ \A e \in DOMAIN v.pendingEvents_ :
           v.pendingEvents_[e].verificationCount <= MaxVerifications
    /\ \A e \in DOMAIN v.verificationCalls : v.verificationCalls[e] <= MaxCalls
    /\ pendingEvents_' = v.pendingEvents_
    /\ verificationCalls' = v.verificationCalls
    /\ UNCHANGED <<nodeVars, vrmVars, vrfVars, epochVars, shardVars, syncVars, poolVars>>

SubmitEvent == \E eventID \in EventIDs : ApplyVerifier(submitEvent(Verifier, eventID))

SubmitVerification ==
    \E eventID \in EventIDs, verifierID \in VerifierNodes, confirm \in BOOLEAN :
        ApplyVerifier(submitVerification(Verifier, eventID, verifierID, confirm))

CleanupExpiredEvents ==
    \E expired \in SUBSET EventIDs : ApplyVerifier(cleanupExpiredEvents(Verifier, expired))

NextVerifier == SubmitEvent \/ SubmitVerification \/ CleanupExpiredEvents

SpecVerifier == Init /\ [][NextVerifier]_vars

\* C37: with 3 verifiers per event and threshold 0.67, an event that received
\* 2 confirmations and 1 rejection is verified with result authentic
C37_TwoOfThreeAuthentic ==
    \A e \in DOMAIN pendingEvents_ :
        (pendingEvents_[e].confirmCount = 2 /\ pendingEvents_[e].rejectCount = 1) =>
            isEventVerified(Verifier, e) /\ getVerificationResult(Verifier, e)

\* A verified event keeps its result, and its callback is not called again
VerifiedIsFinal ==
    \A e \in DOMAIN pendingEvents_ :
        isEventVerified(Verifier, e) =>
            \A verifierID \in VerifierNodes, confirm \in BOOLEAN :
                LET r == submitVerification(Verifier, e, verifierID, confirm)
                IN /\ getVerificationResult(r, e) = getVerificationResult(Verifier, e)
                   /\ r.verificationCalls = verificationCalls

\* C38: once submitVerification has marked an event verified, no later
\* submitVerification call changes its result, and the verification callback
\* fires at most once per event
C38_VerifiedIsFinal ==
    /\ VerifiedIsFinal
    /\ \A e \in DOMAIN verificationCalls : verificationCalls[e] <= 1


\* C39: when updateNodeLocation moves a node to a location outside its
\* current shard, the reputation the shard manager holds for the node after
\* the call equals the one it held before
C39_RehomingKeepsReputation ==
    \A n \in DOMAIN nodeShardMap_ : \A newLocation \in Locations :
        ~contains(shards_[nodeShardMap_[n]], newLocation) =>
            LET r == updateNodeLocation(Mgr, n, newLocation)
            IN /\ n \in DOMAIN r.nodeReputationMap_
               /\ r.nodeReputationMap_[n] = nodeReputationMap_[n]


\* The transactions of the proposals this node published: its current
\* proposal and the blocks it committed as their proposer
OwnProposalTransactions(s) ==
    (IF s.currentProposal_.leaderID = NodeID
     THEN SeqToSet(s.currentProposal_.transactions) ELSE {})
    \cup UNION { SeqToSet(s.committedBlocks_[i].transactions) :
                   i \in { j \in 1..Len(s.committedBlocks_) :
                             s.committedBlocks_[j].proposer = NodeID } }

\* The transactions a consensus-timer call that leaves state r took out of
\* the pool
TakenFromPool(r) ==
    (SeqToSet(txPool_) \cup (txArrivals + 1)..r.pool.txArrivals)
        \ SeqToSet(r.pool.txPool_)

\* C40: no transaction is lost by a refused proposal: whatever the consensus
\* timer removes from the pool is part of a proposal the node published, so
\* a batch whose proposal proposeBlock refuses is still in the pool
C40_NoTransactionLost ==
    \A reelect \in BOOLEAN, leader \in BOOLEAN, numTx \in 1..5 :
        LET r == handleConsensusTimer(St, Pool, reelect, CONSENSUS_PRIMARY,
                                      MaxShardSize, leader, numTx)
        IN TakenFromPool(r) \subseteq OwnProposalTransactions(r.st)

====
